---- MODULE Spec2Model ----
(***************************************************************************)
(* A model of syosetu2epub.py: the concurrent chapter downloader           *)
(* (download_chapters), the rate limiter (RateLimiter) and the retrying    *)
(* fetcher (_fetch_url).  Each component has its own specification over    *)
(* the shared variables; the variables of the other components stay at     *)
(* their initial values.                                                   *)
(***************************************************************************)
EXTENDS Integers, Sequences, FiniteSets, TLC

\* ------------------------------------------------------------------ bounds
MaxLinks == 3
MaxJobs == 2
NumCallers == 2
MaxCalls == 2
MaxTime == 6
MaxRetries == 2
MaxPages == 2
MaxChapters == 3
MaxToc == 4
MaxEvents == 6
MaxTocEvents == 5
MaxText == 3
MaxLine == 4
MaxSepParas == 4
MaxImgs == 3
MaxEpub == 5
MaxTxtParas == 3
MaxBackoff == 5
MaxVolumes == 3
MaxVolLinks == 2

\* ------------------------------------------------------------------ values
\* Python's None, as a record so that it compares with chapters and exceptions.
None == [type |-> "None"]

\* The k-th chapter URL of the crawled list.
Url(k) == <<"url", k>>

\* A URL that is no item of the list (the value of "no URL named").
NoUrl == <<"url", 0>>

VARIABLES
  \* download_chapters: arguments
  links,        \* links: list[str]
  jobs,         \* jobs: int
  skip_errors,  \* skip_errors: bool
  outcome,      \* what get_page + parse_chapter_page give for item k
  \* download_chapters: locals and the executor
  dl_pc,        \* position of the calling thread
  fut,          \* state of the future of item k
  queue,        \* the executor's work queue (item indices, FIFO)
  yielded,      \* futures as_completed has handed to the loop
  results,      \* results: list[Optional[Chapter]]
  errors,       \* errors: list[tuple[str, BaseException]]
  completed,    \* completed: int
  cancel_i,     \* position of "for f in future_map: f.cancel()"
  dl_exc,       \* the exception download_chapters raises (None: none)
  dl_ret,       \* the list download_chapters returns (None: no return)
  seen,         \* history: the futures' states when the failure was observed
  reordered     \* history: a chapter was stored before an earlier item's

dlvars == <<links, jobs, skip_errors, outcome, dl_pc, fut, queue, yielded,
            results, errors, completed, cancel_i, dl_exc, dl_ret, seen, reordered>>

VARIABLES
  \* the clock and the RateLimiter object
  clock,        \* time.monotonic(), in ticks of 50 ms
  min_interval, \* self.min_interval
  next_time,    \* self._next_time
  lock,         \* self._lock: the caller holding it, 0 when free
  \* the callers of RateLimiter.wait
  rl_pc,        \* position of caller c
  now,          \* caller c's local "now" (0 outside the call)
  sleep_for,    \* caller c's local "sleep_for" (0 outside the call)
  ncalls,       \* wait() calls caller c has made
  sched_prev,   \* history: the wake time given under the lock before the last
  sched_last,   \* history: the wake time given under the lock last (-1: none)
  grant_prev,   \* history: the return time of the call before the last to return
  grant_last,   \* history: wake time and return time of the last call to return
  overshot      \* history: some call returned later than its wake time

limvars == <<clock, min_interval, next_time, lock>>
rlvars == <<rl_pc, now, sleep_for, ncalls, sched_prev, sched_last,
            grant_prev, grant_last, overshot>>

VARIABLES
  \* _fetch_url: arguments
  fu_url,       \* url
  retries,      \* retries
  delay,        \* delay
  has_limiter,  \* limiter is not None
  \* _fetch_url: locals
  fu_pc,        \* position in the function
  attempt,      \* attempt
  last_err,     \* last_err
  fu_resp,      \* what urlopen gave for the current attempt
  \* _fetch_url: result
  fu_ret,       \* the value returned (None: no return)
  fu_exc,       \* the exception raised (None: none)
  \* _fetch_url: history
  n_attempts,   \* urlopen calls made
  n_retryable,  \* urlopen calls that failed with a retryable error
  n_waits,      \* limiter.wait() calls that have returned
  slept         \* the backoff sleeps made, in order

fuvars == <<fu_url, retries, delay, has_limiter, fu_pc, attempt, last_err,
            fu_resp, fu_ret, fu_exc, n_attempts, n_retryable, n_waits, slept>>

VARIABLES
  \* main: the walk over the pages of the table of contents
  toc_pc,        \* position in main
  next_url,      \* next_url
  page_url,      \* page_url
  title,         \* title
  author,        \* author
  summary,       \* summary
  toc_items,     \* toc_items: list[dict]
  seen_links,    \* seen_links: set[str]
  seen_pages,    \* seen_pages: set[str]
  site,          \* the kind of site walked (see Sites)
  fetches,       \* history: get_page calls made for each page URL
  first_page,    \* history: the first page that carried each field
  discovered,    \* history: chapter URLs in the order the pages showed them
  skipped,       \* history: what the merge has left out (field, heading, link)
  \* main: the chapter range and the volumes
  chapter_links, \* chapter_links
  sel_range,     \* parsed_range (None: no --chapters)
  indices,       \* indices, as 1-based positions of chapter_links
  selected_links,\* selected_links
  volumes,       \* volumes
  found_volume   \* found_volume

tocvars == <<toc_pc, next_url, page_url, title, author, summary, toc_items,
             seen_links, seen_pages, site, fetches, first_page, discovered,
             skipped,
             chapter_links, sel_range, indices, selected_links, volumes,
             found_volume>>

VARIABLES
  \* parse_chapter_page
  cp_pc,       \* position in parse_chapter_page
  parser,      \* parser: the fields of the ChapterParser
  page,        \* the page fed (see PageNames)
  rest,        \* the events of the page not yet handled
  handled,     \* history: the number of events handled
  fed,         \* history: parser.paragraphs when feed and close were over
  paragraphs,  \* paragraphs
  page_title   \* the title returned

cpvars == <<cp_pc, parser, page, rest, handled, fed, paragraphs,
            page_title>>

VARIABLES
  \* parse_toc_page
  tp_pc,       \* position in parse_toc_page
  toc_parser,  \* parser: the fields of the TocParser
  tp_handled,  \* history: the number of events handled
  tp_ret       \* the tuple returned

tpvars == <<tp_pc, toc_parser, tp_handled, tp_ret>>

VARIABLES
  \* the functions of a text or of a list, called alone
  call,        \* the function called and its arguments
  result       \* what it returned

fnvars == <<call, result>>

VARIABLES
  \* download_images: arguments, locals and the executor
  img_pc,       \* position in download_images
  img_jobs,     \* jobs: int
  chap_base,    \* extract_image_sources: chap_base of the chapter in hand
  sources,      \* sources: list[str]
  img_seen,     \* extract_image_sources: seen
  img_fut,      \* what the future of fetch_one(idx, src) holds
  img_results,  \* results: list[Optional[tuple]]
  image_map,    \* image_map: dict[str, str]
  images,       \* images: list[ImageItem]
  occurrences,  \* history: the normalized source of every match, in order
  fetched       \* history: the responses to the calls of fetch_one per index

imgvars == <<img_pc, img_jobs, chap_base, sources, img_seen, img_fut,
             img_results, image_map, images, occurrences, fetched>>

VARIABLES
  \* build_epub2: the archive
  epub_pc,      \* position in build_epub2
  zf,           \* the names of the entries written to the ZipFile
  out_file      \* what is at the output path

zipvars == <<epub_pc, zf, out_file>>

VARIABLES
  \* one page given to parsers built with and without remove_furigana
  fg_pc,        \* the extractor the page is for
  fg_kept,      \* ChapterParser(remove_furigana=False)
  fg_removed,   \* ChapterParser(remove_furigana=True)
  fg_toc,       \* TocParser(remove_furigana=True)
  fg_open,      \* history: the rt and rp tags of the page that are open
  fg_handled    \* history: the number of events handled

fgvars == <<fg_pc, fg_kept, fg_removed, fg_toc, fg_open, fg_handled>>

VARIABLES
  \* main, the run split by volumes
  mv_pc,             \* position in main
  format,            \* args.format
  selected_volumes,  \* selected_volumes: (vol_index, chapter links)
  vol_next,          \* the position of the volume loop in selected_volumes
  merged_chapters,   \* merged_chapters
  mv_breaks,         \* volume_breaks
  merged_call        \* the chapters and volume_breaks write_output got for
                     \* the merged container

mvvars == <<mv_pc, format, selected_volumes, vol_next, merged_chapters,
            mv_breaks, merged_call>>

pagevars == <<tocvars, cpvars, tpvars, fnvars, imgvars, zipvars, fgvars,
              mvvars>>

vars == <<dlvars, limvars, rlvars, fuvars, pagevars>>

\* ============================================================ exceptions
\* str(e) of urllib's HTTPError is "HTTP Error <code>: <reason>" and of
\* URLError "<urlopen error <reason>>": neither text holds the URL.
HTTPError(code) == [type |-> "HTTPError", code |-> code, names |-> NoUrl]
URLError == [type |-> "URLError", code |-> 0, names |-> NoUrl]
SocketTimeout == [type |-> "socket.timeout", code |-> 0, names |-> NoUrl]
SSLError == [type |-> "SSLError", code |-> 0, names |-> NoUrl]

\* An exception of urlopen or resp.read() that neither except clause of
\* _fetch_url names (http.client.IncompleteRead, for one).
OtherError == [type |-> "IncompleteRead", code |-> 0, names |-> NoUrl]

\* RuntimeError(f"Failed to fetch {url}: {last_err}")
FetchError(url, last) ==
  [type |-> "RuntimeError", code |-> 0, names |-> url, cause |-> last.type]

\* RuntimeError(f"Failed to download {url}") from e
DownloadError(url, e) ==
  [type |-> "RuntimeError", code |-> 0, names |-> url, cause |-> e.type]

\* ============================================================ chapters
\* The page title parse_chapter_page returns: empty, or the page's own title.
NoTitle == <<>>
PageTitle(url) == <<"title", url>>

\* What fetching and parsing one item gives: a page (with or without a title)
\* or the exception get_page raises.
Outcomes ==
  { [ok |-> TRUE, titled |-> TRUE, exc |-> None],
    [ok |-> TRUE, titled |-> FALSE, exc |-> None],
    [ok |-> FALSE, titled |-> FALSE, exc |-> HTTPError(404)],
    [ok |-> FALSE, titled |-> FALSE, exc |-> URLError] }

\* chap_title = chap_title or f"Chapter {idx}"
DefaultTitle(chap_title, idx) ==
  IF chap_title = NoTitle THEN <<"Chapter", idx>> ELSE chap_title

\* The chapter dict built from the page of item k (k counts from 1).
MakeChapter(k, url, o) ==
  [type |-> "Chapter",
   title |-> DefaultTitle(IF o.titled THEN PageTitle(url) ELSE NoTitle, k),
   url |-> url]

\* A faulty variant of the final filter: the None slots are kept.
NotNoneKeep(s) == s

\* [c for c in results if c is not None]
RECURSIVE NotNone(_)
NotNone(s) ==
  IF s = <<>> THEN <<>>
  ELSE IF Head(s) = None THEN NotNone(Tail(s))
       ELSE <<Head(s)>> \o NotNone(Tail(s))

\* ================================================= sequential path
\* The loop of the sequential path from item idx on, with the chapters
\* appended so far: the list returned, or the exception that leaves the loop.
RECURSIVE SeqLoop(_, _, _, _, _)
SeqLoop(lk, oc, skip, idx, chapters) ==
  IF idx > Len(lk) THEN [ret |-> chapters, exc |-> None]
  ELSE IF ~oc[idx].ok
       THEN IF skip THEN SeqLoop(lk, oc, skip, idx + 1, chapters)
            ELSE [ret |-> None, exc |-> oc[idx].exc]
       ELSE SeqLoop(lk, oc, skip, idx + 1,
                    Append(chapters, MakeChapter(idx, lk[idx], oc[idx])))

\* ============================================================ Init
Ascending(n) == [k \in 1..n |-> Url(k)]
Descending(n) == [k \in 1..n |-> Url(n + 1 - k)]

\* download_chapters is called: its arguments, and its locals before line 1069.
DownloadCalled ==
  /\ \E n \in 0..MaxLinks : links \in {Ascending(n), Descending(n)}
  /\ jobs \in 1..MaxJobs
  /\ skip_errors \in BOOLEAN
  /\ outcome \in [1..Len(links) -> Outcomes]
  /\ dl_pc = "start"
  /\ fut = [k \in 1..Len(links) |-> "unsubmitted"]
  /\ queue = <<>>
  /\ yielded = {}
  /\ results = [k \in 1..Len(links) |-> None]
  /\ errors = <<>>
  /\ completed = 0
  /\ cancel_i = 0
  /\ dl_exc = None
  /\ dl_ret = None
  /\ seen = <<>>
  /\ reordered = FALSE

\* download_chapters is not called.
IdleDownload ==
  /\ links = <<>>
  /\ jobs = 1
  /\ skip_errors = FALSE
  /\ outcome = <<>>
  /\ dl_pc = "idle"
  /\ fut = <<>>
  /\ queue = <<>>
  /\ yielded = {}
  /\ results = <<>>
  /\ errors = <<>>
  /\ completed = 0
  /\ cancel_i = 0
  /\ dl_exc = None
  /\ dl_ret = None
  /\ seen = <<>>
  /\ reordered = FALSE

\* ============================================================ actions
Items == 1..Len(links)
Running == {k \in Items : fut[k] = "running"}

\* if jobs <= 1 or len(links) <= 1: the whole sequential loop
RunSequential ==
  /\ dl_pc = "start"
  /\ jobs <= 1 \/ Len(links) <= 1
  /\ LET r == SeqLoop(links, outcome, skip_errors, 1, <<>>) IN
       /\ dl_ret' = r.ret
       /\ dl_exc' = r.exc
       /\ dl_pc' = IF r.exc = None THEN "returned" ELSE "raised"
  /\ UNCHANGED <<links, jobs, skip_errors, outcome, fut, queue, yielded,
                 results, errors, completed, cancel_i, seen, reordered>>
  /\ UNCHANGED <<limvars, rlvars, fuvars, pagevars>>

\* results = [None] * len(links); with ThreadPoolExecutor(max_workers=jobs)
EnterPool ==
  /\ dl_pc = "start"
  /\ ~(jobs <= 1 \/ Len(links) <= 1)
  /\ dl_pc' = "submit"
  /\ UNCHANGED <<links, jobs, skip_errors, outcome, fut, queue, yielded,
                 results, errors, completed, cancel_i, dl_exc, dl_ret, seen, reordered>>
  /\ UNCHANGED <<limvars, rlvars, fuvars, pagevars>>

\* ex.submit(fetch_one, idx, url) for the next item, in list order; after the
\* last one the loop over as_completed starts.
Submit ==
  /\ dl_pc = "submit"
  /\ \E k \in Items :
       /\ fut[k] = "unsubmitted"
       /\ \A j \in 1..(k - 1) : fut[j] # "unsubmitted"
       /\ fut' = [fut EXCEPT ![k] = "pending"]
       /\ queue' = Append(queue, k)
       /\ dl_pc' = IF k = Len(links) THEN "collect" ELSE "submit"
  /\ UNCHANGED <<links, jobs, skip_errors, outcome, yielded, results, errors,
                 completed, cancel_i, dl_exc, dl_ret, seen, reordered>>
  /\ UNCHANGED <<limvars, rlvars, fuvars, pagevars>>

\* A free worker takes the head of the queue and starts fetch_one for it.
WorkerStart ==
  /\ queue # <<>>
  /\ Cardinality(Running) < jobs
  /\ fut[Head(queue)] = "pending"
  /\ fut' = [fut EXCEPT ![Head(queue)] = "running"]
  /\ queue' = Tail(queue)
  /\ UNCHANGED <<links, jobs, skip_errors, outcome, dl_pc, yielded, results,
                 errors, completed, cancel_i, dl_exc, dl_ret, seen, reordered>>
  /\ UNCHANGED <<limvars, rlvars, fuvars, pagevars>>

\* A free worker takes a cancelled work item: it is dropped, never run.
WorkerSkipCancelled ==
  /\ queue # <<>>
  /\ Cardinality(Running) < jobs
  /\ fut[Head(queue)] = "cancelled"
  /\ queue' = Tail(queue)
  /\ UNCHANGED <<links, jobs, skip_errors, outcome, dl_pc, fut, yielded,
                 results, errors, completed, cancel_i, dl_exc, dl_ret, seen, reordered>>
  /\ UNCHANGED <<limvars, rlvars, fuvars, pagevars>>

\* fetch_one returns its (index, chapter) or raises: the future is finished.
WorkerFinish(k) ==
  /\ fut[k] = "running"
  /\ fut' = [fut EXCEPT ![k] = IF outcome[k].ok THEN "ok" ELSE "err"]
  /\ UNCHANGED <<links, jobs, skip_errors, outcome, dl_pc, queue, yielded,
                 results, errors, completed, cancel_i, dl_exc, dl_ret, seen, reordered>>
  /\ UNCHANGED <<limvars, rlvars, fuvars, pagevars>>

\* A faulty variant of the store: the chapter is appended after those stored
\* so far, in completion order.
StoreResultAppend(res, k, chapter) ==
  LET n == Cardinality({j \in DOMAIN res : res[j] # None}) IN
    [res EXCEPT ![n + 1] = chapter]

\* results[index] = chapter
StoreResult(res, k, chapter) == [res EXCEPT ![k] = chapter]

\* The position of the loop after one more future was handled.
AfterYield(ys) == IF ys = Items THEN "exit" ELSE "collect"

\* One iteration of "for future in as_completed(future_map)" whose
\* future.result() returns: the chapter is stored, completed += 1.
CollectOk(k) ==
  /\ dl_pc = "collect"
  /\ k \notin yielded
  /\ fut[k] = "ok"
  /\ results' = StoreResult(results, k, MakeChapter(k, links[k], outcome[k]))
  /\ completed' = completed + 1
  /\ yielded' = yielded \cup {k}
  /\ dl_pc' = AfterYield(yielded')
  /\ reordered' = (reordered \/ \E j \in 1..(k - 1) : j \notin yielded)
  /\ UNCHANGED <<links, jobs, skip_errors, outcome, fut, queue, errors,
                 cancel_i, dl_exc, dl_ret, seen>>
  /\ UNCHANGED <<limvars, rlvars, fuvars, pagevars>>

\* One iteration whose future.result() raises, in skip-errors mode.
CollectErrSkip(k) ==
  /\ dl_pc = "collect"
  /\ k \notin yielded
  /\ fut[k] = "err"
  /\ skip_errors
  /\ errors' = Append(errors, <<links[k], outcome[k].exc>>)
  /\ completed' = completed + 1
  /\ yielded' = yielded \cup {k}
  /\ dl_pc' = AfterYield(yielded')
  /\ UNCHANGED <<links, jobs, skip_errors, outcome, fut, queue, results,
                 cancel_i, dl_exc, dl_ret, seen, reordered>>
  /\ UNCHANGED <<limvars, rlvars, fuvars, pagevars>>

\* One iteration whose future.result() raises, in fail-fast mode: the error
\* is recorded and the cancel loop over future_map begins.
CollectErrFail(k) ==
  /\ dl_pc = "collect"
  /\ k \notin yielded
  /\ fut[k] = "err"
  /\ ~skip_errors
  /\ errors' = Append(errors, <<links[k], outcome[k].exc>>)
  /\ yielded' = yielded \cup {k}
  /\ cancel_i' = 1
  /\ seen' = fut
  /\ dl_pc' = "cancel"
  /\ UNCHANGED <<links, jobs, skip_errors, outcome, fut, queue, results,
                 completed, dl_exc, dl_ret, reordered>>
  /\ UNCHANGED <<limvars, rlvars, fuvars, pagevars>>

\* A faulty variant of cancel: nothing is cancelled.
CancelNone(st) == st

\* f.cancel(): a future no worker has taken yet becomes cancelled; a running
\* or finished one is left as it is.
Cancel(st) == IF st = "pending" THEN "cancelled" ELSE st

\* One step of "for f in future_map: f.cancel()", in submission order; after
\* the last one the RuntimeError is raised and leaves the with block.
CancelStep ==
  /\ dl_pc = "cancel"
  /\ cancel_i <= Len(links)
  /\ fut' = [fut EXCEPT ![cancel_i] = Cancel(fut[cancel_i])]
  /\ cancel_i' = cancel_i + 1
  /\ IF cancel_i = Len(links)
     THEN /\ dl_exc' = DownloadError(errors[Len(errors)][1], errors[Len(errors)][2])
          /\ dl_pc' = "exit"
     ELSE /\ dl_exc' = dl_exc
          /\ dl_pc' = "cancel"
  /\ UNCHANGED <<links, jobs, skip_errors, outcome, queue, yielded, results,
                 errors, completed, dl_ret, seen, reordered>>
  /\ UNCHANGED <<limvars, rlvars, fuvars, pagevars>>

\* A faulty variant of the exit: the workers are not waited for.
PoolIdleNoWait == TRUE

\* What the exit of the with block (shutdown(wait=True)) waits for: the
\* workers have drained the queue and no fetch_one is running.
PoolIdle == queue = <<>> /\ Running = {}

\* The with block is left: the pending exception reaches the caller, or the
\* chapters that are not None are returned.
ExitPool ==
  /\ dl_pc = "exit"
  /\ PoolIdle
  /\ IF dl_exc # None
     THEN /\ dl_pc' = "raised"
          /\ dl_ret' = None
     ELSE /\ dl_pc' = "returned"
          /\ dl_ret' = NotNone(results)
  /\ UNCHANGED <<links, jobs, skip_errors, outcome, fut, queue, yielded,
                 results, errors, completed, cancel_i, dl_exc, seen, reordered>>
  /\ UNCHANGED <<limvars, rlvars, fuvars, pagevars>>

NextDownload ==
  \/ RunSequential
  \/ EnterPool
  \/ Submit
  \/ WorkerStart
  \/ WorkerSkipCancelled
  \/ \E k \in Items : WorkerFinish(k)
  \/ \E k \in Items : CollectOk(k)
  \/ \E k \in Items : CollectErrSkip(k)
  \/ \E k \in Items : CollectErrFail(k)
  \/ CancelStep
  \/ ExitPool

\* ============================================================ time
\* Times are whole ticks of 50 ms.
Seconds(n) == 20 * n

\* DEFAULT_DELAY = 0.1
DEFAULT_DELAY == Seconds(1) \div 10

Max(a, b) == IF a >= b THEN a ELSE b
Min(a, b) == IF a <= b THEN a ELSE b

\* ============================================================ RateLimiter
Callers == 1..NumCallers

\* A faulty variant of the schedule: a caller that has to sleep sets
\* _next_time from the clock, as a caller that need not sleep does.
WaitScheduleFromNow(t, nt, interval) ==
  IF t < nt
  THEN [sleep_for |-> nt - t, next_time |-> t + interval]
  ELSE [sleep_for |-> 0, next_time |-> t + interval]

\* A faulty variant of the schedule: a caller that has to sleep does not
\* move _next_time on.
WaitScheduleNoAdvance(t, nt, interval) ==
  IF t < nt
  THEN [sleep_for |-> nt - t, next_time |-> nt]
  ELSE [sleep_for |-> 0, next_time |-> t + interval]

\* The body of wait() under the lock, for the clock value read and the
\* current _next_time: the time to sleep and the new _next_time.
WaitSchedule(t, nt, interval) ==
  IF t < nt
  THEN [sleep_for |-> nt - t, next_time |-> nt + interval]
  ELSE [sleep_for |-> 0, next_time |-> t + interval]

\* RateLimiter.__init__(min_interval) at the current clock value.
LimiterInit(arg) ==
  /\ min_interval = Max(0, arg)
  /\ next_time = IF Max(0, arg) > 0 THEN clock + Max(0, arg) ELSE 0
  /\ lock = 0

\* No thread is calling wait().
IdleCallers ==
  /\ rl_pc = <<>>
  /\ now = <<>>
  /\ sleep_for = <<>>
  /\ ncalls = <<>>
  /\ sched_prev = 0 - 1
  /\ sched_last = 0 - 1
  /\ grant_prev = 0 - 1
  /\ grant_last = [sched |-> 0 - 1, ret |-> 0 - 1]
  /\ overshot = FALSE

\* The threads that will call wait(), none of them in a call yet.
CallersReady ==
  /\ rl_pc = [c \in Callers |-> "idle"]
  /\ now = [c \in Callers |-> 0]
  /\ sleep_for = [c \in Callers |-> 0]
  /\ ncalls = [c \in Callers |-> 0]
  /\ sched_prev = 0 - 1
  /\ sched_last = 0 - 1
  /\ grant_prev = 0 - 1
  /\ grant_last = [sched |-> 0 - 1, ret |-> 0 - 1]
  /\ overshot = FALSE

\* History: a call scheduled for wake time s returns at the current time.
Granted(s) ==
  /\ grant_prev' = grant_last.ret
  /\ grant_last' = [sched |-> s, ret |-> clock]
  /\ overshot' = (overshot \/ clock > s)

\* Time passes.
Tick ==
  /\ clock < MaxTime
  /\ clock' = clock + 1
  /\ UNCHANGED <<min_interval, next_time, lock>>
  /\ UNCHANGED rlvars
  /\ UNCHANGED <<dlvars, fuvars, pagevars>>

\* wait() with min_interval <= 0: returns at once.
WaitNoop(c) ==
  /\ rl_pc[c] = "idle"
  /\ ncalls[c] < MaxCalls
  /\ min_interval <= 0
  /\ ncalls' = [ncalls EXCEPT ![c] = @ + 1]
  /\ Granted(clock)
  /\ UNCHANGED <<rl_pc, now, sleep_for, sched_prev, sched_last>>
  /\ UNCHANGED limvars
  /\ UNCHANGED <<dlvars, fuvars, pagevars>>

\* wait() with min_interval > 0: the caller goes for the lock.
WaitEnter(c) ==
  /\ rl_pc[c] = "idle"
  /\ ncalls[c] < MaxCalls
  /\ min_interval > 0
  /\ ncalls' = [ncalls EXCEPT ![c] = @ + 1]
  /\ rl_pc' = [rl_pc EXCEPT ![c] = "acquire"]
  /\ UNCHANGED <<now, sleep_for, sched_prev, sched_last, grant_prev,
                 grant_last, overshot>>
  /\ UNCHANGED limvars
  /\ UNCHANGED <<dlvars, fuvars, pagevars>>

\* with self._lock: the lock is taken when it is free.
Acquire(c) ==
  /\ rl_pc[c] = "acquire"
  /\ lock = 0
  /\ lock' = c
  /\ rl_pc' = [rl_pc EXCEPT ![c] = "locked"]
  /\ UNCHANGED <<clock, min_interval, next_time>>
  /\ UNCHANGED <<now, sleep_for, ncalls, sched_prev, sched_last, grant_prev,
                 grant_last, overshot>>
  /\ UNCHANGED <<dlvars, fuvars, pagevars>>

\* A faulty variant of wait(): time.sleep inside the with block, the lock
\* still held by the sleeper.
HeldWhileSleeping(c) == c

\* The holder of the lock once the with block is left: nobody.
ReleasedBeforeSleep(c) == 0

\* The body of the with block, with sleep_for > 0: the clock is read,
\* sleep_for and _next_time are set, the lock is released and the sleep begins.
ScheduleSleep(c) ==
  /\ rl_pc[c] = "locked"
  /\ LET r == WaitSchedule(clock, next_time, min_interval) IN
       /\ r.sleep_for > 0
       /\ now' = [now EXCEPT ![c] = clock]
       /\ sleep_for' = [sleep_for EXCEPT ![c] = r.sleep_for]
       /\ next_time' = r.next_time
       /\ sched_prev' = sched_last
       /\ sched_last' = clock + r.sleep_for
  /\ rl_pc' = [rl_pc EXCEPT ![c] = "sleep"]
  /\ lock' = ReleasedBeforeSleep(c)
  /\ UNCHANGED <<clock, min_interval>>
  /\ UNCHANGED <<ncalls, grant_prev, grant_last, overshot>>
  /\ UNCHANGED <<dlvars, fuvars, pagevars>>

\* The body of the with block, with sleep_for = 0: _next_time is set, the
\* lock is released and wait() returns without sleeping.
ScheduleReturn(c) ==
  /\ rl_pc[c] = "locked"
  /\ LET r == WaitSchedule(clock, next_time, min_interval) IN
       /\ ~(r.sleep_for > 0)
       /\ next_time' = r.next_time
       /\ sched_prev' = sched_last
       /\ sched_last' = clock + r.sleep_for
  /\ rl_pc' = [rl_pc EXCEPT ![c] = "idle"]
  /\ lock' = 0
  /\ Granted(clock)
  /\ UNCHANGED <<clock, min_interval>>
  /\ UNCHANGED <<now, sleep_for, ncalls>>
  /\ UNCHANGED <<dlvars, fuvars, pagevars>>

\* time.sleep(sleep_for) ends, at its wake time or later, and wait() returns.
Wake(c) ==
  /\ rl_pc[c] = "sleep"
  /\ clock >= now[c] + sleep_for[c]
  /\ rl_pc' = [rl_pc EXCEPT ![c] = "idle"]
  /\ now' = [now EXCEPT ![c] = 0]
  /\ sleep_for' = [sleep_for EXCEPT ![c] = 0]
  /\ Granted(now[c] + sleep_for[c])
  /\ UNCHANGED <<ncalls, sched_prev, sched_last>>
  /\ UNCHANGED limvars
  /\ UNCHANGED <<dlvars, fuvars, pagevars>>

NextRateLimiter ==
  \/ Tick
  \/ \E c \in Callers : WaitNoop(c)
  \/ \E c \in Callers : WaitEnter(c)
  \/ \E c \in Callers : Acquire(c)
  \/ \E c \in Callers : ScheduleSleep(c)
  \/ \E c \in Callers : ScheduleReturn(c)
  \/ \E c \in Callers : Wake(c)

\* Time passes beyond the horizon while a caller sleeps for a wake time that
\* has not come.
TickSleeping ==
  /\ clock >= MaxTime
  /\ \E c \in Callers :
       rl_pc[c] = "sleep" /\ clock < now[c] + sleep_for[c]
  /\ clock' = clock + 1
  /\ UNCHANGED <<min_interval, next_time, lock>>
  /\ UNCHANGED rlvars
  /\ UNCHANGED <<dlvars, fuvars, pagevars>>

\* Every thread has called wait() on a limiter with min_interval > 0 and
\* goes for the lock.
CallersWaiting ==
  /\ rl_pc = [c \in Callers |-> "acquire"]
  /\ now = [c \in Callers |-> 0]
  /\ sleep_for = [c \in Callers |-> 0]
  /\ ncalls = [c \in Callers |-> 1]
  /\ sched_prev = 0 - 1
  /\ sched_last = 0 - 1
  /\ grant_prev = 0 - 1
  /\ grant_last = [sched |-> 0 - 1, ret |-> 0 - 1]
  /\ overshot = FALSE

\* The steps of the calls in progress and of the clock.
NextRateLimiterFair ==
  \/ Tick
  \/ TickSleeping
  \/ \E c \in Callers : Acquire(c)
  \/ \E c \in Callers : ScheduleSleep(c)
  \/ \E c \in Callers : ScheduleReturn(c)
  \/ \E c \in Callers : Wake(c)

\* Time passes, and a thread that can take its next step takes it.
FairRateLimiter ==
  /\ WF_vars(Tick \/ TickSleeping)
  /\ \A c \in Callers :
       /\ WF_vars(Acquire(c))
       /\ WF_vars(ScheduleSleep(c) \/ ScheduleReturn(c))
       /\ WF_vars(Wake(c))

\* ============================================================ _fetch_url
\* e.code in (429, 500, 502, 503, 504)
RetryCodes == {429, 500, 502, 503, 504}

\* What urlopen(...) and resp.read() can give for one attempt.
OkResponse == [type |-> "ok", code |-> 200, names |-> NoUrl]
NetErrors == {URLError, SocketTimeout, SSLError}
Responses ==
  {OkResponse} \cup {HTTPError(c) : c \in {403, 404} \cup RetryCodes}
    \cup NetErrors \cup {OtherError}

\* The failures after which _fetch_url makes another attempt when it has one.
Retryable(r) ==
  \/ r.type = "HTTPError" /\ r.code \in RetryCodes
  \/ r \in NetErrors

\* uniform(0, 0.25)
Jitters == 0..(Seconds(1) \div 4)

\* A faulty variant of the backoff: no cap.
BackoffUncapped(a, jitter) == Seconds(2 ^ a) + jitter

\* min(8.0, (2**attempt)) + uniform(0, 0.25)
Backoff(a, jitter) == Min(Seconds(8), Seconds(2 ^ a)) + jitter

\* _fetch_url is not called.
IdleFetch ==
  /\ fu_url = NoUrl
  /\ retries = 0
  /\ delay = 0
  /\ has_limiter = FALSE
  /\ fu_pc = "idle"
  /\ attempt = 0
  /\ last_err = None
  /\ fu_resp = None
  /\ fu_ret = None
  /\ fu_exc = None
  /\ n_attempts = 0
  /\ n_retryable = 0
  /\ n_waits = 0
  /\ slept = <<>>

\* _fetch_url is called: its arguments, and last_err = None.
FetchCalled ==
  /\ fu_url = Url(1)
  /\ retries \in (0 - 1)..MaxRetries
  /\ delay \in {0, DEFAULT_DELAY}
  /\ has_limiter \in BOOLEAN
  /\ fu_pc = "loop"
  /\ attempt = 0
  /\ last_err = None
  /\ fu_resp = None
  /\ fu_ret = None
  /\ fu_exc = None
  /\ n_attempts = 0
  /\ n_retryable = 0
  /\ n_waits = 0
  /\ slept = <<>>

\* for attempt in range(retries + 1): the loop has another round.
InLoop == fu_pc = "loop" /\ attempt < retries + 1

\* limiter.wait(), by the only caller: the schedule is made and the sleep,
\* when there is one, lasts to the wake time.
FetchWaitLimiter ==
  /\ InLoop
  /\ has_limiter
  /\ IF min_interval <= 0
     THEN UNCHANGED <<clock, next_time>>
     ELSE LET r == WaitSchedule(clock, next_time, min_interval) IN
            /\ next_time' = r.next_time
            /\ clock' = clock + r.sleep_for
  /\ n_waits' = n_waits + 1
  /\ fu_pc' = "request"
  /\ UNCHANGED <<min_interval, lock>>
  /\ UNCHANGED <<fu_url, retries, delay, has_limiter, attempt, last_err,
                 fu_resp, fu_ret, fu_exc, n_attempts, n_retryable, slept>>
  /\ UNCHANGED <<dlvars, rlvars, pagevars>>

\* elif delay > 0: time.sleep(delay)
FetchSleepDelay ==
  /\ InLoop
  /\ ~has_limiter
  /\ delay > 0
  /\ clock' = clock + delay
  /\ fu_pc' = "request"
  /\ UNCHANGED <<min_interval, next_time, lock>>
  /\ UNCHANGED <<fu_url, retries, delay, has_limiter, attempt, last_err,
                 fu_resp, fu_ret, fu_exc, n_attempts, n_retryable, n_waits,
                 slept>>
  /\ UNCHANGED <<dlvars, rlvars, pagevars>>

\* No limiter and no delay: the request follows at once.
FetchNoWait ==
  /\ InLoop
  /\ ~has_limiter
  /\ delay <= 0
  /\ fu_pc' = "request"
  /\ UNCHANGED limvars
  /\ UNCHANGED <<fu_url, retries, delay, has_limiter, attempt, last_err,
                 fu_resp, fu_ret, fu_exc, n_attempts, n_retryable, n_waits,
                 slept>>
  /\ UNCHANGED <<dlvars, rlvars, pagevars>>

\* urllib.request.urlopen(req, ...) and resp.read(): one HTTP attempt.
FetchRequest ==
  /\ fu_pc = "request"
  /\ \E r \in Responses :
       /\ fu_resp' = r
       /\ n_retryable' = IF Retryable(r) THEN n_retryable + 1 ELSE n_retryable
  /\ n_attempts' = n_attempts + 1
  /\ fu_pc' = "handle"
  /\ UNCHANGED limvars
  /\ UNCHANGED <<fu_url, retries, delay, has_limiter, attempt, last_err,
                 fu_ret, fu_exc, n_waits, slept>>
  /\ UNCHANGED <<dlvars, rlvars, pagevars>>

\* return resp.read(), resp.headers
FetchReturn ==
  /\ fu_pc = "handle"
  /\ fu_resp = OkResponse
  /\ fu_ret' = [type |-> "Response", url |-> fu_url]
  /\ fu_pc' = "returned"
  /\ UNCHANGED limvars
  /\ UNCHANGED <<fu_url, retries, delay, has_limiter, attempt, last_err,
                 fu_resp, fu_exc, n_attempts, n_retryable, n_waits, slept>>
  /\ UNCHANGED <<dlvars, rlvars, pagevars>>

\* A faulty variant of the test: every status code is retried.
RetryHTTPAnyCode(e, a, n) == a < n

\* The test of the first except clause for another attempt.
RetryHTTP(e, a, n) == e.code \in RetryCodes /\ a < n

\* The test of the second except clause for another attempt.
RetryNet(a, n) == a < n

\* The exception that leaves _fetch_url from an except clause: a bare raise.
Reraise(url, e) == e

\* A faulty variant of the retry: after the backoff the request is made again
\* without going back to the head of the loop.
BackoffAndRequest ==
  /\ \E j \in Jitters :
       /\ slept' = Append(slept, Backoff(attempt, j))
       /\ clock' = clock + Backoff(attempt, j)
  /\ attempt' = attempt + 1
  /\ fu_pc' = "request"
  /\ UNCHANGED <<min_interval, next_time, lock>>

\* backoff = ...; time.sleep(backoff); continue
BackoffAndContinue ==
  /\ \E j \in Jitters :
       /\ slept' = Append(slept, Backoff(attempt, j))
       /\ clock' = clock + Backoff(attempt, j)
  /\ attempt' = attempt + 1
  /\ fu_pc' = "loop"
  /\ UNCHANGED <<min_interval, next_time, lock>>

\* except urllib.error.HTTPError as e, with another attempt to come.
FetchRetryHTTP ==
  /\ fu_pc = "handle"
  /\ fu_resp.type = "HTTPError"
  /\ RetryHTTP(fu_resp, attempt, retries)
  /\ last_err' = fu_resp
  /\ BackoffAndContinue
  /\ UNCHANGED <<fu_url, retries, delay, has_limiter, fu_resp, fu_ret,
                 fu_exc, n_attempts, n_retryable, n_waits>>
  /\ UNCHANGED <<dlvars, rlvars, pagevars>>

\* except urllib.error.HTTPError as e: raise
FetchRaiseHTTP ==
  /\ fu_pc = "handle"
  /\ fu_resp.type = "HTTPError"
  /\ ~RetryHTTP(fu_resp, attempt, retries)
  /\ last_err' = fu_resp
  /\ fu_exc' = Reraise(fu_url, fu_resp)
  /\ fu_pc' = "raised"
  /\ UNCHANGED limvars
  /\ UNCHANGED <<fu_url, retries, delay, has_limiter, attempt, fu_resp,
                 fu_ret, n_attempts, n_retryable, n_waits, slept>>
  /\ UNCHANGED <<dlvars, rlvars, pagevars>>

\* except (URLError, socket.timeout, ssl.SSLError) as e, with another attempt
\* to come.
FetchRetryNet ==
  /\ fu_pc = "handle"
  /\ fu_resp \in NetErrors
  /\ RetryNet(attempt, retries)
  /\ last_err' = fu_resp
  /\ BackoffAndContinue
  /\ UNCHANGED <<fu_url, retries, delay, has_limiter, fu_resp, fu_ret,
                 fu_exc, n_attempts, n_retryable, n_waits>>
  /\ UNCHANGED <<dlvars, rlvars, pagevars>>

\* except (URLError, socket.timeout, ssl.SSLError) as e: raise
FetchRaiseNet ==
  /\ fu_pc = "handle"
  /\ fu_resp \in NetErrors
  /\ ~RetryNet(attempt, retries)
  /\ last_err' = fu_resp
  /\ fu_exc' = Reraise(fu_url, fu_resp)
  /\ fu_pc' = "raised"
  /\ UNCHANGED limvars
  /\ UNCHANGED <<fu_url, retries, delay, has_limiter, attempt, fu_resp,
                 fu_ret, n_attempts, n_retryable, n_waits, slept>>
  /\ UNCHANGED <<dlvars, rlvars, pagevars>>

\* An exception no except clause names leaves the function.
FetchRaiseOther ==
  /\ fu_pc = "handle"
  /\ fu_resp = OtherError
  /\ fu_exc' = fu_resp
  /\ fu_pc' = "raised"
  /\ UNCHANGED limvars
  /\ UNCHANGED <<fu_url, retries, delay, has_limiter, attempt, last_err,
                 fu_resp, fu_ret, n_attempts, n_retryable, n_waits, slept>>
  /\ UNCHANGED <<dlvars, rlvars, pagevars>>

\* The loop ends without a return or a raise:
\* raise RuntimeError(f"Failed to fetch {url}: {last_err}")
FetchExhausted ==
  /\ fu_pc = "loop"
  /\ ~(attempt < retries + 1)
  /\ fu_exc' = FetchError(fu_url, last_err)
  /\ fu_pc' = "raised"
  /\ UNCHANGED limvars
  /\ UNCHANGED <<fu_url, retries, delay, has_limiter, attempt, last_err,
                 fu_resp, fu_ret, n_attempts, n_retryable, n_waits, slept>>
  /\ UNCHANGED <<dlvars, rlvars, pagevars>>

NextFetch ==
  \/ FetchWaitLimiter
  \/ FetchSleepDelay
  \/ FetchNoWait
  \/ FetchRequest
  \/ FetchReturn
  \/ FetchRetryHTTP
  \/ FetchRaiseHTTP
  \/ FetchRetryNet
  \/ FetchRaiseNet
  \/ FetchRaiseOther
  \/ FetchExhausted

\* ============================================================ TOC walk
\* The empty string, of a title, an author, a synopsis, a URL or a link.
Empty == <<>>

\* The URL of the p-th page of the table of contents; book_url is the first.
TocUrl(p) == <<"toc", p>>
book_url == TocUrl(1)

\* An href of a page: the absolute or the relative spelling of a chapter URL
\* or of a TOC page URL.
HrefForms == {"absolute", "relative"}
ChapterHref(form, k) == [form |-> form, kind |-> "chapter", k |-> k]
PageHref(form, p) == [form |-> form, kind |-> "page", k |-> p]

\* urllib.parse.urljoin(page_url, href): both spellings give the absolute URL.
urljoin(base, href) == IF href.kind = "chapter" THEN Url(href.k) ELSE TocUrl(href.k)

\* What parse_toc_page can return for a page.
TocPages == {TocUrl(p) : p \in 1..MaxPages}
VolumeTitles == {<<"volume", "A">>, <<"volume", "B">>}
ChapterHrefs == {ChapterHref(f, k) : f \in HrefForms, k \in 1..MaxChapters}
NextHrefs == {PageHref(f, p) : f \in HrefForms, p \in 1..MaxPages}

\* The title, author or synopsis the page at url carries.
PageField(name, url) == <<name, url>>

\* The items of the merged list.
TocVolume(t) == [type |-> "volume", title |-> t]
TocChapter(full) == [type |-> "chapter", href |-> full, title |-> <<"subtitle", full>>]

\* A faulty variant of the page guard: no page counts as visited.
SeenPageNever(url, pages) == FALSE

\* if next_url in seen_pages
SeenPage(url, pages) == url \in pages

\* A faulty variant of the accumulation: a later page's value replaces the field.
AccumulateLast(field, page_field) ==
  IF page_field # Empty THEN page_field ELSE field

\* if not title and page_title: title = page_title (author, summary alike)
Accumulate(field, page_field) ==
  IF field = Empty /\ page_field # Empty THEN page_field ELSE field

\* A faulty variant of the heading test: no heading counts as a repeat.
RepeatsLastNever(toc, volume_title) == FALSE

\* toc_items and toc_items[-1] is a volume with the title volume_title
RepeatsLast(toc, volume_title) ==
  /\ toc # <<>>
  /\ toc[Len(toc)].type = "volume"
  /\ toc[Len(toc)].title = volume_title

\* The merged list after an item of type "volume".
MergeVolume(toc, volume_title) ==
  IF volume_title = Empty THEN toc
  ELSE IF RepeatsLast(toc, volume_title) THEN toc
       ELSE Append(toc, TocVolume(volume_title))

\* A faulty variant of the link test: no link counts as seen.
SeenLinkNever(full, seen_set) == FALSE

\* if full in seen_links
SeenLink(full, seen_set) == full \in seen_set

\* The merged list and seen_links after an item of type "chapter".
MergeChapter(toc, seen_set, base, href) ==
  LET full == urljoin(base, href) IN
    IF SeenLink(full, seen_set) THEN [toc |-> toc, seen |-> seen_set]
    ELSE [toc |-> Append(toc, TocChapter(full)), seen |-> seen_set \cup {full}]

\* [item["href"] for item in toc_items if item.get("type") == "chapter"]
RECURSIVE ChapterLinks(_)
ChapterLinks(toc) ==
  IF toc = <<>> THEN <<>>
  ELSE IF Head(toc).type = "chapter"
       THEN <<Head(toc).href>> \o ChapterLinks(Tail(toc))
       ELSE ChapterLinks(Tail(toc))

\* ------------------------------------------------ parse_number_range
\* The characters of a --chapters argument, a text being a sequence of them.
DigitChars == <<"0", "1", "2", "3", "4", "5", "6", "7", "8", "9">>
Digits == {DigitChars[i] : i \in DOMAIN DigitChars}
DigitValue(c) == (CHOOSE i \in DOMAIN DigitChars : DigitChars[i] = c) - 1

\* text.strip(), and its two halves
RECURSIVE LStrip(_)
LStrip(s) == IF s # <<>> /\ Head(s) = " " THEN LStrip(Tail(s)) ELSE s
RECURSIVE RStrip(_)
RStrip(s) ==
  IF s # <<>> /\ s[Len(s)] = " " THEN RStrip(SubSeq(s, 1, Len(s) - 1)) ELSE s
Strip(s) == LStrip(RStrip(s))

\* \d+
IsDigits(s) == s # <<>> /\ \A i \in DOMAIN s : s[i] \in Digits

\* int(m.group(n))
RECURSIVE ToInt(_)
ToInt(s) ==
  IF s = <<>> THEN 0
  ELSE 10 * ToInt(SubSeq(s, 1, Len(s) - 1)) + DigitValue(s[Len(s)])

\* The two groups of ^(\d+)\s*-\s*(\d+)$ in raw, or None when it does not match.
RangeMatch(raw) ==
  LET dashes == {i \in DOMAIN raw : raw[i] = "-"} IN
    IF dashes = {} THEN None
    ELSE LET i == CHOOSE d \in dashes : \A e \in dashes : d <= e
             a == RStrip(SubSeq(raw, 1, i - 1))
             b == LStrip(SubSeq(raw, i + 1, Len(raw)))
         IN IF IsDigits(a) /\ IsDigits(b)
            THEN [type |-> "Match", group1 |-> a, group2 |-> b]
            ELSE None

\* The pair (start, end) parse_number_range returns.
NumberRange(a, b) == [type |-> "range", start |-> a, end |-> b]

\* parse_number_range(text): the pair (start, end), or None
parse_number_range(text) ==
  LET raw == Strip(text)
      m == RangeMatch(raw)
  IN IF m # None
     THEN LET a == ToInt(m.group1)
              b == ToInt(m.group2)
          IN IF a < 1 \/ b < 1 \/ b < a THEN None ELSE NumberRange(a, b)
     ELSE IF ~IsDigits(raw) THEN None
          ELSE IF ToInt(raw) < 1 THEN None
               ELSE NumberRange(ToInt(raw), ToInt(raw))

\* The --chapters arguments tried: the numbers and ranges over the digits in
\* use, and texts that are neither.
ArgDigits == {DigitChars[d + 1] : d \in 0..MaxChapters}
ChapterArgs ==
  {<<a>> : a \in ArgDigits}
    \cup {<<a, "-", b>> : a, b \in ArgDigits}
    \cup {<<"1", a>> : a \in ArgDigits}
    \cup {<<"-">>, <<"1", "-">>, <<"-", "1">>, <<"1", "-", "-", "2">>,
          <<"1", " ", "2">>, <<" ", "1", " ", "-", " ", "2", " ">>}

\* parsed_range = parse_number_range(args.chapters), for the arguments tried
ParsedArgs == {parse_number_range(text) : text \in ChapterArgs}

\* A faulty variant of the selection: the range is taken as 0-based.
RangeIndicesFromZero(start, end) == {i + 1 : i \in start..(end - 1)}

\* range(start - 1, end), as 1-based positions of chapter_links
RangeIndices(start, end) == {i + 1 : i \in (start - 1)..(end - 1)}

\* ------------------------------------------------ build_volumes
\* f"Volume {vol_index}"
DefaultVolumeTitle(vol_index) == <<"Volume", vol_index>>

\* A faulty variant of the append: the chapter goes to the first volume.
AddChapterToFirst(vols, current, href, selected) ==
  IF href # Empty /\ href \in selected
  THEN [vols EXCEPT ![1].chapters = Append(@, href)]
  ELSE vols

\* if href and (selected is None or href in selected):
\*     current["chapters"].append(href)
AddChapter(vols, current, href, selected) ==
  IF href # Empty /\ href \in selected
  THEN [vols EXCEPT ![current].chapters = Append(@, href)]
  ELSE vols

\* One round of "for item in toc_items"; current is the position in volumes
\* of the dict current refers to, 0 for None.
BuildStep(acc, item, selected) ==
  IF item.type = "volume"
  THEN LET t == IF item.title # Empty THEN item.title
                ELSE DefaultVolumeTitle(acc.vol_index + 1)
       IN [volumes |-> Append(acc.volumes, [title |-> t, chapters |-> <<>>]),
           current |-> Len(acc.volumes) + 1,
           vol_index |-> acc.vol_index + 1,
           found_volume |-> TRUE]
  ELSE LET opened ==
             IF acc.current = 0
             THEN [volumes |-> Append(acc.volumes,
                                      [title |-> DefaultVolumeTitle(acc.vol_index + 1),
                                       chapters |-> <<>>]),
                   current |-> Len(acc.volumes) + 1,
                   vol_index |-> acc.vol_index + 1,
                   found_volume |-> acc.found_volume]
             ELSE acc
       IN [opened EXCEPT
             !.volumes = AddChapter(opened.volumes, opened.current, item.href, selected)]

RECURSIVE BuildLoop(_, _, _)
BuildLoop(acc, toc, selected) ==
  IF toc = <<>> THEN acc
  ELSE BuildLoop(BuildStep(acc, Head(toc), selected), Tail(toc), selected)

\* build_volumes(toc_items, selected): volumes and found_volume
build_volumes(toc, selected) ==
  BuildLoop([volumes |-> <<>>, current |-> 0, vol_index |-> 0,
             found_volume |-> FALSE], toc, selected)

\* ------------------------------------------------ main: the TOC walk
\* The sites walked: the pages of a "listing" site carry items and no title,
\* author or synopsis; those of a "described" site carry any of the three and
\* at most one item in all.
Sites == {"listing", "described"}
PageFields(name, url) ==
  IF site = "described" THEN {Empty, PageField(name, url)} ELSE {Empty}
ItemRoom == IF site = "described" THEN 1 ELSE MaxToc

\* main has not reached the walk.
IdleToc ==
  /\ toc_pc = "idle"
  /\ next_url = Empty
  /\ page_url = Empty
  /\ title = Empty
  /\ author = Empty
  /\ summary = Empty
  /\ toc_items = <<>>
  /\ seen_links = {}
  /\ seen_pages = {}
  /\ site = "none"
  /\ fetches = <<>>
  /\ first_page = <<>>
  /\ discovered = <<>>
  /\ skipped = {}
  /\ chapter_links = <<>>
  /\ sel_range = None
  /\ indices = {}
  /\ selected_links = <<>>
  /\ volumes = <<>>
  /\ found_volume = FALSE

\* main at line 1661, before the first round of "while next_url".
TocStart ==
  /\ toc_pc = "loop"
  /\ next_url = book_url
  /\ page_url = Empty
  /\ title = Empty
  /\ author = Empty
  /\ summary = Empty
  /\ toc_items = <<>>
  /\ seen_links = {}
  /\ seen_pages = {}
  /\ site \in Sites
  /\ fetches = [u \in TocPages |-> 0]
  /\ first_page = [title |-> Empty, author |-> Empty, summary |-> Empty]
  /\ discovered = <<>>
  /\ skipped = {}
  /\ chapter_links = <<>>
  /\ sel_range = None
  /\ indices = {}
  /\ selected_links = <<>>
  /\ volumes = <<>>
  /\ found_volume = FALSE

\* The chapters of the site are numbered in the order in which its pages show
\* them: a link on a page is to a chapter shown before or to the next new one.
ShownOrNext(hrefs, shown) == {h \in hrefs : h.k <= Len(shown) + 1}

\* History: one more get_page call for url (the count stops at two).
Fetched(url) == fetches' = [fetches EXCEPT ![url] = Min(@ + 1, 2)]

\* History: the page that was the first to carry a non-empty field.
FirstPage(first, url, t, a, s) ==
  [title |-> IF first.title = Empty /\ t # Empty THEN url ELSE first.title,
   author |-> IF first.author = Empty /\ a # Empty THEN url ELSE first.author,
   summary |-> IF first.summary = Empty /\ s # Empty THEN url ELSE first.summary]

\* History: the chapter URLs in the order in which the pages first showed them.
Discovered(seq, full) ==
  IF \E i \in DOMAIN seq : seq[i] = full THEN seq ELSE Append(seq, full)

\* while next_url: the page is new; get_page and parse_toc_page give its
\* title, author and synopsis, which are accumulated.
TocFetch ==
  /\ toc_pc = "loop"
  /\ next_url # Empty
  /\ ~SeenPage(next_url, seen_pages)
  /\ seen_pages' = seen_pages \cup {next_url}
  /\ page_url' = next_url
  /\ Fetched(next_url)
  /\ \E t \in PageFields("title", next_url),
        a \in PageFields("author", next_url),
        s \in PageFields("summary", next_url) :
       /\ title' = Accumulate(title, t)
       /\ author' = Accumulate(author, a)
       /\ summary' = Accumulate(summary, s)
       /\ first_page' = FirstPage(first_page, next_url, t, a, s)
       /\ skipped' = IF \/ title # Empty /\ t # Empty
                        \/ author # Empty /\ a # Empty
                        \/ summary # Empty /\ s # Empty
                     THEN skipped \cup {"field"} ELSE skipped
  /\ toc_pc' = "items"
  /\ UNCHANGED <<next_url, toc_items, seen_links, site, discovered, chapter_links,
                 sel_range, indices, selected_links, volumes, found_volume>>
  /\ UNCHANGED <<dlvars, limvars, rlvars, fuvars, cpvars, tpvars, fnvars, imgvars, zipvars, fgvars, mvvars>>

\* get_page raises: "Failed to fetch TOC page", and main returns.
TocFetchFail ==
  /\ toc_pc = "loop"
  /\ next_url # Empty
  /\ ~SeenPage(next_url, seen_pages)
  /\ seen_pages' = seen_pages \cup {next_url}
  /\ page_url' = next_url
  /\ Fetched(next_url)
  /\ toc_pc' = "failed"
  /\ UNCHANGED <<next_url, title, author, summary, toc_items, seen_links,
                 site, first_page, discovered, skipped, chapter_links, sel_range,
                 indices, selected_links, volumes, found_volume>>
  /\ UNCHANGED <<dlvars, limvars, rlvars, fuvars, cpvars, tpvars, fnvars, imgvars, zipvars, fgvars, mvvars>>

\* for item in items: an item of type "volume"
TocItemVolume ==
  /\ toc_pc = "items"
  /\ \E t \in VolumeTitles :
       /\ Len(MergeVolume(toc_items, t)) <= ItemRoom
       /\ toc_items' = MergeVolume(toc_items, t)
       /\ skipped' = IF toc_items # <<>> /\ toc_items[Len(toc_items)] = TocVolume(t)
                     THEN skipped \cup {"heading"} ELSE skipped
  /\ UNCHANGED <<toc_pc, next_url, page_url, title, author, summary, site,
                 seen_links, seen_pages, fetches, first_page, discovered,
                 chapter_links, sel_range, indices, selected_links, volumes, found_volume>>
  /\ UNCHANGED <<dlvars, limvars, rlvars, fuvars, cpvars, tpvars, fnvars, imgvars, zipvars, fgvars, mvvars>>

\* for item in items: an item of type "chapter"
TocItemChapter ==
  /\ toc_pc = "items"
  /\ \E href \in ShownOrNext(ChapterHrefs, discovered) :
       LET r == MergeChapter(toc_items, seen_links, page_url, href) IN
         /\ Len(r.toc) <= ItemRoom
         /\ toc_items' = r.toc
         /\ seen_links' = r.seen
         /\ discovered' = Discovered(discovered, urljoin(page_url, href))
         /\ skipped' = IF Discovered(discovered, urljoin(page_url, href)) = discovered
                       THEN skipped \cup {"link"} ELSE skipped
  /\ UNCHANGED <<toc_pc, next_url, page_url, title, author, summary, site,
                 seen_pages, fetches, first_page, chapter_links, sel_range,
                 indices, selected_links, volumes, found_volume>>
  /\ UNCHANGED <<dlvars, limvars, rlvars, fuvars, cpvars, tpvars, fnvars, imgvars, zipvars, fgvars, mvvars>>

\* The items of the page are done:
\* next_url = urljoin(page_url, page_next) if page_next else ""
TocPageEnd ==
  /\ toc_pc = "items"
  /\ \E page_next \in NextHrefs \cup {Empty} :
       next_url' = IF page_next # Empty THEN urljoin(page_url, page_next) ELSE Empty
  /\ toc_pc' = "loop"
  /\ UNCHANGED <<page_url, title, author, summary, toc_items, seen_links,
                 seen_pages, site, fetches, first_page, discovered, skipped,
                 chapter_links, sel_range, indices, selected_links, volumes, found_volume>>
  /\ UNCHANGED <<dlvars, limvars, rlvars, fuvars, cpvars, tpvars, fnvars, imgvars, zipvars, fgvars, mvvars>>

\* After the loop: title = title or "syosetu"; chapter_links is built, and
\* main returns when it is empty.
AfterWalk ==
  /\ title' = IF title = Empty THEN <<"syosetu">> ELSE title
  /\ chapter_links' = ChapterLinks(toc_items)
  /\ toc_pc' = IF ChapterLinks(toc_items) = <<>> THEN "no_chapters" ELSE "walked"
  /\ UNCHANGED <<next_url, page_url, author, summary, toc_items, seen_links,
                 seen_pages, site, fetches, first_page, discovered, skipped,
                 sel_range, indices, selected_links, volumes, found_volume>>
  /\ UNCHANGED <<dlvars, limvars, rlvars, fuvars, cpvars, tpvars, fnvars, imgvars, zipvars, fgvars, mvvars>>

\* if next_url in seen_pages: break
TocBreak ==
  /\ toc_pc = "loop"
  /\ next_url # Empty
  /\ SeenPage(next_url, seen_pages)
  /\ AfterWalk

\* while next_url: the last page had no next link.
TocEnd ==
  /\ toc_pc = "loop"
  /\ next_url = Empty
  /\ AfterWalk

\* The list s in the order of s, restricted to the positions in idx.
RECURSIVE Pick(_, _, _)
Pick(s, idx, i) ==
  IF i > Len(s) THEN <<>>
  ELSE IF i \in idx THEN <<s[i]>> \o Pick(s, idx, i + 1)
       ELSE Pick(s, idx, i + 1)

\* selected_links = [chapter_links[i] for i in indices]; build_volumes
SelectLinks(idx) ==
  /\ indices' = idx
  /\ selected_links' = Pick(chapter_links, idx, 1)
  /\ LET selected_set == {chapter_links[i] : i \in idx}
         r == build_volumes(toc_items, selected_set)
     IN /\ volumes' = r.volumes
        /\ found_volume' = r.found_volume
  /\ toc_pc' = "selected"

\* --chapters is given and is no range of the chapter list:
\* "Invalid chapter range.", and main returns.
SelectInvalid ==
  /\ toc_pc = "walked"
  /\ \E parsed_range \in ParsedArgs :
       \/ parsed_range = None
       \/ parsed_range # None /\ parsed_range.end > Len(chapter_links)
  /\ toc_pc' = "bad_range"
  /\ UNCHANGED <<next_url, page_url, title, author, summary, toc_items,
                 seen_links, seen_pages, site, fetches, first_page,
                 discovered, skipped, chapter_links, sel_range, indices,
                 selected_links, volumes, found_volume>>
  /\ UNCHANGED <<dlvars, limvars, rlvars, fuvars, cpvars, tpvars, fnvars, imgvars, zipvars, fgvars, mvvars>>

\* --chapters is given and is a range of the chapter list.
SelectRange ==
  /\ toc_pc = "walked"
  /\ \E parsed_range \in ParsedArgs :
       /\ parsed_range # None
       /\ ~(parsed_range.end > Len(chapter_links))
       /\ sel_range' = parsed_range
       /\ SelectLinks(RangeIndices(parsed_range.start, parsed_range.end))
  /\ UNCHANGED <<next_url, page_url, title, author, summary, toc_items,
                 seen_links, seen_pages, site, fetches, first_page,
                 discovered, skipped, chapter_links>>
  /\ UNCHANGED <<dlvars, limvars, rlvars, fuvars, cpvars, tpvars, fnvars, imgvars, zipvars, fgvars, mvvars>>

\* --chapters is not given: indices = range(len(chapter_links))
SelectAll ==
  /\ toc_pc = "walked"
  /\ sel_range' = None
  /\ SelectLinks(1..Len(chapter_links))
  /\ UNCHANGED <<next_url, page_url, title, author, summary, toc_items,
                 seen_links, seen_pages, site, fetches, first_page,
                 discovered, skipped, chapter_links>>
  /\ UNCHANGED <<dlvars, limvars, rlvars, fuvars, cpvars, tpvars, fnvars, imgvars, zipvars, fgvars, mvvars>>

\* display_volumes = [v for v in volumes if v.get("chapters")]
RECURSIVE display_volumes(_)
display_volumes(vols) ==
  IF vols = <<>> THEN <<>>
  ELSE IF Head(vols).chapters # <<>>
       THEN <<Head(vols)>> \o display_volumes(Tail(vols))
       ELSE display_volumes(Tail(vols))

NextToc ==
  \/ TocFetch
  \/ TocFetchFail
  \/ TocItemVolume
  \/ TocItemChapter
  \/ TocPageEnd
  \/ TocBreak
  \/ TocEnd
  \/ SelectInvalid
  \/ SelectRange
  \/ SelectAll

\* ============================================================ ChapterParser
\* Strings are sequences of tokens: "" is Empty, "".join(parts) is the
\* concatenation of the parts.
MARK_PREFACE == <<"__PREFACE__">>
MARK_PREFACE_END == <<"__PREFACE_END__">>
MARK_AFTERWORD == <<"__AFTERWORD__">>
MARK_AFTERWORD_END == <<"__AFTERWORD_END__">>

Sentence == <<"sentence">>
LineBreak == <<"<br />">>
NewLine == <<"\n">>

\* The characters str.strip() removes.
WhiteSpace == {" ", "\n"}

\* not s.strip()
StripsToEmpty(s) == \A i \in 1..Len(s) : s[i] \in WhiteSpace

RECURSIVE Join(_)
Join(parts) == IF parts = <<>> THEN Empty ELSE Head(parts) \o Join(Tail(parts))

\* The attributes of a tag: its class attribute, as the set cls.split().
Attrs(classes) == [class |-> classes]
NoAttrs == Attrs({})
has_class(attrs, class_name) == class_name \in attrs.class

\* ChapterParser.__init__ (block_label_end None is written Empty: the code
\* only tests its truth).
NewChapterParser(remove_furigana) ==
  [title_parts |-> <<>>,
   paragraphs |-> <<>>,
   remove_furigana |-> remove_furigana,
   ruby_skip_depth |-> 0,
   in_title |-> FALSE,
   text_block_depth |-> 0,
   in_p |-> FALSE,
   current_html_parts |-> <<>>,
   current_text_parts |-> <<>>,
   block_label_end |-> Empty]

EnterBlockUnlabelled(self, attrs) ==
  [self EXCEPT !.text_block_depth = 1,
               !.block_label_end = Empty,
               !.paragraphs =
                 IF has_class(attrs, "p-novel__text--preface")
                   THEN Append(@, MARK_PREFACE)
                 ELSE IF has_class(attrs, "p-novel__text--afterword")
                   THEN Append(@, MARK_AFTERWORD)
                 ELSE @]

\* Lines 648-657: a text block is entered.
EnterBlock(self, attrs) ==
  LET is_preface == has_class(attrs, "p-novel__text--preface")
      is_afterword == has_class(attrs, "p-novel__text--afterword")
  IN IF is_preface
       THEN [self EXCEPT !.text_block_depth = 1,
                         !.block_label_end = MARK_PREFACE_END,
                         !.paragraphs = Append(@, MARK_PREFACE)]
     ELSE IF is_afterword
       THEN [self EXCEPT !.text_block_depth = 1,
                         !.block_label_end = MARK_AFTERWORD_END,
                         !.paragraphs = Append(@, MARK_AFTERWORD)]
     ELSE [self EXCEPT !.text_block_depth = 1, !.block_label_end = Empty]

\* Lines 666-667 (and 672-673).
AppendBreak(self) ==
  [self EXCEPT !.current_html_parts = Append(@, LineBreak),
               !.current_text_parts = Append(@, NewLine)]

\* Lines 632, 636, 691, 695: the markup of a furigana tag, kept in a paragraph.
AppendMarkup(self, markup) ==
  IF self.text_block_depth > 0 /\ self.in_p
    THEN [self EXCEPT !.current_html_parts = Append(@, markup)]
    ELSE self

\* handle_starttag for the tags rt, rp, ruby, h1, div, p, br and tags it has
\* no branch for.
handle_starttag(self, tag, attrs) ==
  IF tag \in {"rt", "rp"}
    THEN IF self.remove_furigana
           THEN [self EXCEPT !.ruby_skip_depth = @ + 1]
           ELSE AppendMarkup(self, <<"<", tag, ">">>)
  ELSE IF tag = "ruby"
    THEN IF self.remove_furigana THEN self
         ELSE AppendMarkup(self, <<"<", tag, ">">>)
  ELSE IF tag = "h1" /\ has_class(attrs, "p-novel__title")
    THEN [self EXCEPT !.in_title = TRUE]
  ELSE IF tag = "div"
    THEN IF self.text_block_depth > 0
           THEN [self EXCEPT !.text_block_depth = @ + 1]
         ELSE IF \/ has_class(attrs, "p-novel__text")
                 \/ has_class(attrs, "p-novel__text--preface")
                 \/ has_class(attrs, "p-novel__text--afterword")
           THEN EnterBlock(self, attrs)
         ELSE self
  ELSE IF self.text_block_depth > 0 /\ tag = "p"
    THEN [self EXCEPT !.in_p = TRUE,
                      !.current_html_parts = <<>>,
                      !.current_text_parts = <<>>]
  ELSE IF self.text_block_depth > 0 /\ self.in_p /\ tag = "br"
    THEN AppendBreak(self)
  ELSE self

\* handle_startendtag for br and tags it has no branch for.
handle_startendtag(self, tag) ==
  IF self.text_block_depth > 0 /\ self.in_p /\ tag = "br"
    THEN AppendBreak(self)
    ELSE self

\* Lines 703-705: the end marker of a preface or afterword block.
BlockLabel(self) ==
  IF self.block_label_end # Empty
    THEN [self EXCEPT !.paragraphs = Append(@, self.block_label_end),
                      !.block_label_end = Empty]
    ELSE self

BlockBlankAlways(self) == [self EXCEPT !.paragraphs = Append(@, Empty)]

\* Lines 706-707: the blank after a block.
BlockBlank(self) ==
  IF self.paragraphs # <<>> /\ self.paragraphs[Len(self.paragraphs)] # Empty
    THEN [self EXCEPT !.paragraphs = Append(@, Empty)]
    ELSE self

\* Lines 710-718: the paragraph that ends.
EndParagraph(self) ==
  LET html_content == Join(self.current_html_parts)
      text_content == Join(self.current_text_parts)
      para == IF StripsToEmpty(text_content) /\ StripsToEmpty(html_content)
                THEN Empty ELSE html_content
  IN [self EXCEPT !.paragraphs = Append(@, para),
                  !.in_p = FALSE,
                  !.current_html_parts = <<>>,
                  !.current_text_parts = <<>>]

LeaveRubyUnguarded(self) == [self EXCEPT !.ruby_skip_depth = @ - 1]

\* Lines 688-689 (and 535-536 in TocParser).
LeaveRuby(self) ==
  IF self.ruby_skip_depth > 0
    THEN [self EXCEPT !.ruby_skip_depth = @ - 1]
    ELSE self

\* handle_endtag for the tags rt, rp, ruby, h1, div, p and tags it has no
\* branch for.
handle_endtag(self, tag) ==
  IF tag \in {"rt", "rp"}
    THEN IF self.remove_furigana
           THEN LeaveRuby(self)
           ELSE AppendMarkup(self, <<"</", tag, ">">>)
  ELSE IF tag = "ruby"
    THEN IF self.remove_furigana THEN self
         ELSE AppendMarkup(self, <<"</", tag, ">">>)
  ELSE IF tag = "h1" /\ self.in_title
    THEN [self EXCEPT !.in_title = FALSE]
  ELSE IF tag = "div" /\ self.text_block_depth > 0
    THEN LET left == [self EXCEPT !.text_block_depth = @ - 1]
         IN IF left.text_block_depth = 0
              THEN BlockBlank(BlockLabel(left))
              ELSE left
  ELSE IF tag = "p" /\ self.in_p
    THEN EndParagraph(self)
  ELSE self

\* A faulty variant of handle_data: the text inside rt and rp is not skipped.
handle_data_unskipped(self, data) ==
  IF self.in_title
    THEN [self EXCEPT !.title_parts = Append(@, data)]
  ELSE IF self.text_block_depth > 0 /\ self.in_p
    THEN [self EXCEPT !.current_html_parts = Append(@, data),
                      !.current_text_parts = Append(@, data)]
    ELSE self

\* handle_data, for text that normalize_japanese_punct and html.escape leave
\* as it is.
handle_data(self, data) ==
  IF self.remove_furigana /\ self.ruby_skip_depth > 0
    THEN self
  ELSE IF self.in_title
    THEN [self EXCEPT !.title_parts = Append(@, data)]
  ELSE IF self.text_block_depth > 0 /\ self.in_p
    THEN [self EXCEPT !.current_html_parts = Append(@, data),
                      !.current_text_parts = Append(@, data)]
    ELSE self

TrimOneBlank(ps) ==
  IF ps # <<>> /\ ps[Len(ps)] = Empty THEN SubSeq(ps, 1, Len(ps) - 1) ELSE ps

TrimEveryBlank(ps) == SelectSeq(ps, LAMBDA para : para # Empty)

\* str.strip()
RECURSIVE StrStrip(_)
StrStrip(s) ==
  IF s = <<>> THEN s
  ELSE IF Head(s) \in WhiteSpace THEN StrStrip(Tail(s))
  ELSE IF s[Len(s)] \in WhiteSpace THEN StrStrip(SubSeq(s, 1, Len(s) - 1))
  ELSE s

\* ChapterParser.get_title
get_title(self) == StrStrip(Join(self.title_parts))

\* parse_chapter_page, lines 749-750.
RECURSIVE TrimTrailingBlanks(_)
TrimTrailingBlanks(ps) ==
  IF ps # <<>> /\ ps[Len(ps)] = Empty
    THEN TrimTrailingBlanks(SubSeq(ps, 1, Len(ps) - 1))
    ELSE ps

\* ---- the events HTMLParser.feed and close give the handlers
StartTag(tag, attrs) ==
  [kind |-> "starttag", tag |-> tag, attrs |-> attrs, data |-> Empty]
StartEndTag(tag) ==
  [kind |-> "startendtag", tag |-> tag, attrs |-> NoAttrs, data |-> Empty]
EndTag(tag) ==
  [kind |-> "endtag", tag |-> tag, attrs |-> NoAttrs, data |-> Empty]
Data(data) ==
  [kind |-> "data", tag |-> "", attrs |-> NoAttrs, data |-> data]

Tags == {"div", "p", "br", "span", "rt", "ruby", "h1"}
DivAttrs ==
  {NoAttrs,
   Attrs({"p-novel__text"}),
   Attrs({"p-novel__text", "p-novel__text--preface"}),
   Attrs({"p-novel__text", "p-novel__text--afterword"}),
   Attrs({"p-novel__text--preface", "p-novel__text--afterword"})}
TagAttrs(tag) ==
  IF tag = "div" THEN DivAttrs
  ELSE IF tag = "h1" THEN {NoAttrs, Attrs({"p-novel__title"})}
  ELSE {NoAttrs}
Texts == {Sentence, <<" ">>}

PlainDiv == StartTag("div", Attrs({"p-novel__text"}))
PrefaceDiv ==
  StartTag("div", Attrs({"p-novel__text", "p-novel__text--preface"}))
AfterwordDiv ==
  StartTag("div", Attrs({"p-novel__text", "p-novel__text--afterword"}))
SentenceP == <<StartTag("p", NoAttrs), Data(Sentence), EndTag("p")>>
EmptyP == <<StartTag("p", NoAttrs), EndTag("p")>>

\* The pages fed whole: a preface block of one sentence followed by an empty
\* paragraph (in the text block after it, outside any block, or as the last
\* paragraph of the preface), and a text block with an empty paragraph between
\* two sentences and two at its end, and a preface block that holds a container
\* of the afterword class and is followed by an afterword block, and a page of
\* close tags without their open tags followed by a text block and a paragraph
\* that are never closed.
ExamplePages ==
  [preface_then_empty_p |->
     <<PrefaceDiv>> \o SentenceP \o <<EndTag("div"), PlainDiv>> \o EmptyP
       \o <<EndTag("div")>>,
   preface_then_bare_empty_p |->
     <<PrefaceDiv>> \o SentenceP \o <<EndTag("div")>> \o EmptyP,
   preface_with_empty_p |->
     <<PrefaceDiv>> \o SentenceP \o EmptyP \o <<EndTag("div")>>,
   blank_lines |->
     <<PlainDiv>> \o SentenceP \o EmptyP \o SentenceP \o EmptyP \o EmptyP
       \o <<EndTag("div")>>,
   nested_blocks |->
     <<PrefaceDiv, AfterwordDiv>> \o SentenceP \o <<EndTag("div")>>
       \o SentenceP \o <<EndTag("div"), AfterwordDiv, EndTag("div")>>,
   malformed |->
     <<EndTag("div"), EndTag("p"), EndTag("rt"), EndTag("h1"), PlainDiv,
       StartTag("p", NoAttrs), Data(Sentence)>>]

\* page "any": the events are drawn one by one, any page of at most MaxEvents
\* events.
PageNames == DOMAIN ExamplePages \cup {"any"}

\* parse_chapter_page has not been called.
IdleChapter ==
  /\ cp_pc = "idle"
  /\ parser = NewChapterParser(FALSE)
  /\ page = "none"
  /\ rest = <<>>
  /\ handled = 0
  /\ fed = <<>>
  /\ paragraphs = <<>>
  /\ page_title = Empty

\* parse_chapter_page, line 745.
ChapterStart ==
  /\ cp_pc = "feeding"
  /\ \E remove_furigana \in BOOLEAN :
       parser = NewChapterParser(remove_furigana)
  /\ page \in PageNames
  /\ rest = IF page = "any" THEN <<>> ELSE ExamplePages[page]
  /\ handled = 0
  /\ fed = <<>>
  /\ paragraphs = <<>>
  /\ page_title = Empty

\* event is the next event of the page.
Feeding(event) ==
  /\ cp_pc = "feeding"
  /\ IF page = "any"
       THEN handled < MaxEvents /\ rest' = rest
       ELSE rest # <<>> /\ event = Head(rest) /\ rest' = Tail(rest)
  /\ handled' = handled + 1

Handled(self) ==
  /\ parser' = self
  /\ UNCHANGED <<cp_pc, page, fed, paragraphs, page_title>>
  /\ UNCHANGED <<dlvars, limvars, rlvars, fuvars, tocvars, tpvars, fnvars, imgvars, zipvars, fgvars, mvvars>>

FeedStartTag ==
  \E tag \in Tags : \E attrs \in TagAttrs(tag) :
    /\ Feeding(StartTag(tag, attrs))
    /\ Handled(handle_starttag(parser, tag, attrs))

FeedStartEndTag ==
  \E tag \in {"br", "p"} :
    /\ Feeding(StartEndTag(tag))
    /\ Handled(handle_startendtag(parser, tag))

FeedEndTag ==
  \E tag \in Tags \ {"br"} :
    /\ Feeding(EndTag(tag))
    /\ Handled(handle_endtag(parser, tag))

FeedData ==
  \E data \in Texts :
    /\ Feeding(Data(data))
    /\ Handled(handle_data(parser, data))

\* parse_chapter_page, lines 747-751: the page is over; paragraphs is the
\* parser's own list, trimmed in place.
ParseReturn ==
  /\ cp_pc = "feeding"
  /\ page = "any" \/ rest = <<>>
  /\ fed' = parser.paragraphs
  /\ paragraphs' = TrimTrailingBlanks(parser.paragraphs)
  /\ page_title' = get_title(parser)
  /\ parser' = [parser EXCEPT !.paragraphs = TrimTrailingBlanks(@)]
  /\ cp_pc' = "returned"
  /\ UNCHANGED <<page, rest, handled>>
  /\ UNCHANGED <<dlvars, limvars, rlvars, fuvars, tocvars, tpvars, fnvars, imgvars, zipvars, fgvars, mvvars>>

NextChapter ==
  \/ FeedStartTag
  \/ FeedStartEndTag
  \/ FeedEndTag
  \/ FeedData
  \/ ParseReturn

\* ============================================================ TocParser
\* The attributes of a tag of a TOC page.
TocAttrs(classes, id, href) == [class |-> classes, id |-> id, href |-> href]
NoTocAttrs == TocAttrs({}, Empty, Empty)

\* TocParser.__init__ (chapter_href None is written Empty: the code only
\* tests its truth).
NewTocParser(remove_furigana) ==
  [title_parts |-> <<>>,
   author_parts |-> <<>>,
   summary_parts |-> <<>>,
   items |-> <<>>,
   next_url |-> Empty,
   remove_furigana |-> remove_furigana,
   ruby_skip_depth |-> 0,
   in_title |-> FALSE,
   in_author |-> FALSE,
   eplist_depth |-> 0,
   in_volume_title |-> FALSE,
   volume_parts |-> <<>>,
   in_chapter_link |-> FALSE,
   chapter_parts |-> <<>>,
   chapter_href |-> Empty,
   summary_depth |-> 0]

\* Lines 510-518: a div of the chapter list.
EnterListDiv(self, attrs) ==
  LET inside ==
        IF self.eplist_depth > 0
          THEN [self EXCEPT !.eplist_depth = @ + 1]
        ELSE IF has_class(attrs, "p-eplist")
          THEN [self EXCEPT !.eplist_depth = 1]
        ELSE self
  IN IF inside.eplist_depth > 0 /\ has_class(attrs, "p-eplist__chapter-title")
       THEN [inside EXCEPT !.in_volume_title = TRUE, !.volume_parts = <<>>]
       ELSE inside

\* TocParser.handle_starttag
toc_handle_starttag(self, tag, attrs) ==
  IF tag \in {"rt", "rp"}
    THEN IF self.remove_furigana
           THEN [self EXCEPT !.ruby_skip_depth = @ + 1]
           ELSE self
  ELSE IF tag = "div" /\ self.summary_depth > 0
    THEN [self EXCEPT !.summary_depth = @ + 1]
  ELSE IF /\ tag = "div"
          /\ attrs.id = <<"novel_ex">> \/ has_class(attrs, "p-novel__summary")
    THEN [self EXCEPT !.summary_depth = 1]
  ELSE IF tag = "h1" /\ has_class(attrs, "p-novel__title")
    THEN [self EXCEPT !.in_title = TRUE]
  ELSE IF tag = "div" /\ has_class(attrs, "p-novel__author")
    THEN [self EXCEPT !.in_author = TRUE]
  ELSE IF /\ tag = "a" /\ has_class(attrs, "c-pager__item--next")
          /\ self.next_url = Empty
    THEN IF attrs.href # Empty
           THEN [self EXCEPT !.next_url = attrs.href]
           ELSE self
  ELSE IF tag = "div"
    THEN EnterListDiv(self, attrs)
  ELSE IF tag = "br" /\ self.summary_depth > 0
    THEN [self EXCEPT !.summary_parts = Append(@, NewLine)]
  ELSE IF /\ tag = "a" /\ self.eplist_depth > 0
          /\ has_class(attrs, "p-eplist__subtitle")
          /\ attrs.href # Empty
    THEN [self EXCEPT !.in_chapter_link = TRUE,
                      !.chapter_parts = <<>>,
                      !.chapter_href = attrs.href]
  ELSE self

\* Lines 553-560: the end of a div that is none of the summary or the author.
LeaveListDiv(self) ==
  LET volume_title == StrStrip(Join(self.volume_parts))
      titled ==
        IF self.in_volume_title
          THEN [self EXCEPT
                  !.items = IF volume_title # Empty
                              THEN Append(@, [type |-> "volume",
                                              title |-> volume_title,
                                              href |-> Empty])
                              ELSE @,
                  !.in_volume_title = FALSE,
                  !.volume_parts = <<>>]
          ELSE self
  IN IF titled.eplist_depth > 0
       THEN [titled EXCEPT !.eplist_depth = @ - 1]
       ELSE titled

\* Lines 563-574: the end of a chapter link.
LeaveChapterLink(self) ==
  LET chapter_title == StrStrip(Join(self.chapter_parts))
  IN [self EXCEPT
        !.items = IF self.chapter_href # Empty
                    THEN Append(@, [type |-> "chapter",
                                    title |-> chapter_title,
                                    href |-> self.chapter_href])
                    ELSE @,
        !.in_chapter_link = FALSE,
        !.chapter_parts = <<>>,
        !.chapter_href = Empty]

\* TocParser.handle_endtag
toc_handle_endtag(self, tag) ==
  IF tag \in {"rt", "rp"} /\ self.remove_furigana
    THEN LeaveRuby(self)
  ELSE IF tag = "div" /\ self.summary_depth > 0
    THEN LET left == [self EXCEPT !.summary_depth = @ - 1]
         IN IF left.summary_depth = 0
              THEN [left EXCEPT !.summary_parts = Append(@, NewLine)]
              ELSE left
  ELSE IF tag = "p" /\ self.summary_depth > 0
    THEN [self EXCEPT !.summary_parts = Append(@, NewLine)]
  ELSE IF tag = "h1" /\ self.in_title
    THEN [self EXCEPT !.in_title = FALSE]
  ELSE IF tag = "div" /\ self.in_author
    THEN [self EXCEPT !.in_author = FALSE]
  ELSE IF tag = "div"
    THEN LeaveListDiv(self)
  ELSE IF tag = "a" /\ self.in_chapter_link
    THEN LeaveChapterLink(self)
  ELSE self

\* TocParser.handle_data, for text that normalize_japanese_punct leaves as it
\* is.
toc_handle_data(self, data) ==
  IF self.remove_furigana /\ self.ruby_skip_depth > 0 THEN self
  ELSE IF self.in_title
    THEN [self EXCEPT !.title_parts = Append(@, data)]
  ELSE IF self.in_author
    THEN [self EXCEPT !.author_parts = Append(@, data)]
  ELSE IF self.summary_depth > 0
    THEN [self EXCEPT !.summary_parts = Append(@, data)]
  ELSE IF self.in_volume_title
    THEN [self EXCEPT !.volume_parts = Append(@, data)]
  ELSE IF self.in_chapter_link
    THEN [self EXCEPT !.chapter_parts = Append(@, data)]
  ELSE self

\* TocParser.get_author: re.sub of the label at the head of raw (the two
\* characters "sakusha" and a full-width colon, written in ASCII here).
AuthorLabel == "sakusha:"
get_author(self) ==
  LET raw == StrStrip(Join(self.author_parts))
  IN IF raw # <<>> /\ Head(raw) = AuthorLabel
       THEN StrStrip(Tail(raw))
       ELSE raw

\* str.splitlines(), each line stripped.
RECURSIVE StrippedLines(_, _)
StrippedLines(s, line) ==
  IF s = <<>> THEN IF line = <<>> THEN <<>> ELSE <<StrStrip(line)>>
  ELSE IF Head(s) = "\n"
    THEN <<StrStrip(line)>> \o StrippedLines(Tail(s), <<>>)
  ELSE StrippedLines(Tail(s), Append(line, Head(s)))

\* "\n".join(lines)
RECURSIVE JoinLines(_)
JoinLines(lines) ==
  IF lines = <<>> THEN Empty
  ELSE IF Len(lines) = 1 THEN Head(lines)
  ELSE Head(lines) \o NewLine \o JoinLines(Tail(lines))

\* TocParser.get_summary
get_summary(self) ==
  JoinLines(SelectSeq(StrippedLines(Join(self.summary_parts), <<>>),
                      LAMBDA line : line # Empty))

\* parse_toc_page: the tuple returned.
TocResult(self) ==
  [title |-> StrStrip(Join(self.title_parts)),
   author |-> get_author(self),
   summary |-> get_summary(self),
   items |-> self.items,
   next_url |-> self.next_url]

\* ---- the events of a TOC page
TocTags == {"rt", "div", "h1", "a", "br", "p"}
TocTagAttrs(tag) ==
  IF tag = "div"
    THEN {NoTocAttrs,
          TocAttrs({"p-novel__summary"}, Empty, Empty),
          TocAttrs({}, <<"novel_ex">>, Empty),
          TocAttrs({"p-novel__author"}, Empty, Empty),
          TocAttrs({"p-eplist"}, Empty, Empty),
          TocAttrs({"p-eplist__chapter-title"}, Empty, Empty)}
  ELSE IF tag = "h1"
    THEN {TocAttrs({"p-novel__title"}, Empty, Empty)}
  ELSE IF tag = "a"
    THEN {TocAttrs({"c-pager__item--next"}, Empty, <<"?p=2">>),
          TocAttrs({"c-pager__item--next"}, Empty, Empty),
          TocAttrs({"p-eplist__subtitle"}, Empty, <<"/n/1/">>),
          TocAttrs({"p-eplist__subtitle"}, Empty, Empty)}
  ELSE {NoTocAttrs}
TocTexts == {Sentence, <<" ">>, <<AuthorLabel>>}

\* parse_toc_page has not been called.
IdleTocParser ==
  /\ tp_pc = "idle"
  /\ toc_parser = NewTocParser(FALSE)
  /\ tp_handled = 0
  /\ tp_ret = TocResult(NewTocParser(FALSE))

\* parse_toc_page, line 738.
TocParserStart ==
  /\ tp_pc = "feeding"
  /\ \E remove_furigana \in BOOLEAN :
       toc_parser = NewTocParser(remove_furigana)
  /\ tp_handled = 0
  /\ tp_ret = TocResult(NewTocParser(FALSE))

\* One handler call of parser.feed(page_html), on a page of at most
\* MaxTocEvents events.
TocHandled(self) ==
  /\ tp_pc = "feeding"
  /\ tp_handled < MaxTocEvents
  /\ tp_handled' = tp_handled + 1
  /\ toc_parser' = self
  /\ UNCHANGED <<tp_pc, tp_ret>>
  /\ UNCHANGED <<dlvars, limvars, rlvars, fuvars, tocvars, cpvars, fnvars, imgvars, zipvars, fgvars, mvvars>>

TocFeedStartTag ==
  \E tag \in TocTags : \E attrs \in TocTagAttrs(tag) :
    TocHandled(toc_handle_starttag(toc_parser, tag, attrs))

TocFeedEndTag ==
  \E tag \in TocTags \ {"br"} :
    TocHandled(toc_handle_endtag(toc_parser, tag))

TocFeedData ==
  \E data \in TocTexts :
    TocHandled(toc_handle_data(toc_parser, data))

\* parse_toc_page, lines 740-741.
TocParseReturn ==
  /\ tp_pc = "feeding"
  /\ tp_ret' = TocResult(toc_parser)
  /\ tp_pc' = "returned"
  /\ UNCHANGED <<toc_parser, tp_handled>>
  /\ UNCHANGED <<dlvars, limvars, rlvars, fuvars, tocvars, cpvars, fnvars, imgvars, zipvars, fgvars, mvvars>>

NextTocParser ==
  \/ TocFeedStartTag
  \/ TocFeedEndTag
  \/ TocFeedData
  \/ TocParseReturn

\* Either extractor, on one page.
NextParsers == NextChapter \/ NextTocParser

\* ============================================================ furigana
\* The text of a page inside an rt or rp tag.
Furigana == <<"furigana">>

AnnotationTags == {"rt", "rp"}

\* No page is being compared.
IdleFurigana ==
  /\ fg_pc = "idle"
  /\ fg_kept = NewChapterParser(FALSE)
  /\ fg_removed = NewChapterParser(TRUE)
  /\ fg_toc = NewTocParser(TRUE)
  /\ fg_open = 0
  /\ fg_handled = 0

\* A chapter page is about to be fed to a ChapterParser of either mode, or
\* a TOC page to a TocParser in remove-furigana mode.
FuriganaStart ==
  /\ fg_pc \in {"chapter", "toc"}
  /\ fg_kept = NewChapterParser(FALSE)
  /\ fg_removed = NewChapterParser(TRUE)
  /\ fg_toc = NewTocParser(TRUE)
  /\ fg_open = 0
  /\ fg_handled = 0

\* The open rt and rp tags of the page after a start tag and an end tag.
OpenAfterStart(tag) == IF tag \in AnnotationTags THEN fg_open + 1 ELSE fg_open
OpenAfterEnd(tag) ==
  IF tag \in AnnotationTags /\ fg_open > 0 THEN fg_open - 1 ELSE fg_open

\* The texts a page can have at this point.
TextsHere(texts) == IF fg_open > 0 THEN {Furigana} ELSE texts

\* One event of the chapter page, handled by both parsers.
PairHandled(kept, removed, open) ==
  /\ fg_pc = "chapter"
  /\ fg_handled < MaxEvents
  /\ fg_handled' = fg_handled + 1
  /\ fg_kept' = kept
  /\ fg_removed' = removed
  /\ fg_open' = open
  /\ UNCHANGED <<fg_pc, fg_toc>>
  /\ UNCHANGED <<dlvars, limvars, rlvars, fuvars, tocvars, cpvars, tpvars,
                 fnvars, imgvars, zipvars, mvvars>>

PairStartTag ==
  \E tag \in Tags \cup AnnotationTags : \E attrs \in TagAttrs(tag) :
    PairHandled(handle_starttag(fg_kept, tag, attrs),
                handle_starttag(fg_removed, tag, attrs),
                OpenAfterStart(tag))

PairStartEndTag ==
  \E tag \in {"br", "p"} :
    PairHandled(handle_startendtag(fg_kept, tag),
                handle_startendtag(fg_removed, tag),
                fg_open)

PairEndTag ==
  \E tag \in (Tags \cup AnnotationTags) \ {"br"} :
    PairHandled(handle_endtag(fg_kept, tag),
                handle_endtag(fg_removed, tag),
                OpenAfterEnd(tag))

PairData ==
  \E data \in TextsHere(Texts) :
    PairHandled(handle_data(fg_kept, data),
                handle_data(fg_removed, data),
                fg_open)

\* One event of the TOC page.
TocFuriganaHandled(self, open) ==
  /\ fg_pc = "toc"
  /\ fg_handled < MaxTocEvents
  /\ fg_handled' = fg_handled + 1
  /\ fg_toc' = self
  /\ fg_open' = open
  /\ UNCHANGED <<fg_pc, fg_kept, fg_removed>>
  /\ UNCHANGED <<dlvars, limvars, rlvars, fuvars, tocvars, cpvars, tpvars,
                 fnvars, imgvars, zipvars, mvvars>>

TocFuriganaStartTag ==
  \E tag \in TocTags \cup AnnotationTags : \E attrs \in TocTagAttrs(tag) :
    TocFuriganaHandled(toc_handle_starttag(fg_toc, tag, attrs),
                       OpenAfterStart(tag))

TocFuriganaEndTag ==
  \E tag \in (TocTags \cup AnnotationTags) \ {"br"} :
    TocFuriganaHandled(toc_handle_endtag(fg_toc, tag), OpenAfterEnd(tag))

TocFuriganaData ==
  \E data \in TextsHere(TocTexts) :
    TocFuriganaHandled(toc_handle_data(fg_toc, data), fg_open)

NextFurigana ==
  \/ PairStartTag
  \/ PairStartEndTag
  \/ PairEndTag
  \/ PairData
  \/ TocFuriganaStartTag
  \/ TocFuriganaEndTag
  \/ TocFuriganaData

\* ============================================================ text passes
\* A call of one of the functions of a text, and what it returned.
NoCall == [fn |-> "none"]
Pending == [done |-> FALSE]
Returned(value) == [done |-> TRUE, value |-> value]

\* No function is called.
IdleCall ==
  /\ call = NoCall
  /\ result = Pending

\* A text is the sequence of its characters; a character outside ASCII is
\* written by its code point, and the scheme of a URL is one character.
JP_PUNCT_MAP ==
  "!" :> "U+FF01" @@
  "?" :> "U+FF1F" @@
  ":" :> "U+FF1A" @@
  ";" :> "U+FF1B" @@
  "," :> "U+FF0C" @@
  "." :> "U+FF0E" @@
  "(" :> "U+FF08" @@
  ")" :> "U+FF09" @@
  "[" :> "U+FF3B" @@
  "]" :> "U+FF3D" @@
  "{" :> "U+FF5B" @@
  "}" :> "U+FF5D" @@
  "\"" :> "U+FF02" @@
  "'" :> "U+FF07"
JP_DIGIT_MAP ==
  "0" :> "U+FF10" @@
  "1" :> "U+FF11" @@
  "2" :> "U+FF12" @@
  "3" :> "U+FF13" @@
  "4" :> "U+FF14" @@
  "5" :> "U+FF15" @@
  "6" :> "U+FF16" @@
  "7" :> "U+FF17" @@
  "8" :> "U+FF18" @@
  "9" :> "U+FF19"
Schemes == {"http://", "https://"}

\* str.translate(_JP_TEXT_TRANSLATION) of one character, and line 150-152.
Translated(ch) ==
  IF ch \in DOMAIN JP_PUNCT_MAP THEN JP_PUNCT_MAP[ch]
  ELSE IF ch \in DOMAIN JP_DIGIT_MAP THEN JP_DIGIT_MAP[ch]
  ELSE IF ch = "http://" THEN "http_U+FF1A_//"
  ELSE IF ch = "https://" THEN "https_U+FF1A_//"
  ELSE ch

IsDigitAsciiOnly(ch) == ch \in DOMAIN JP_DIGIT_MAP

\* str.isdigit() of one character, true of the full-width digits too ("" is
\* not a digit).
IsDigit(ch) ==
  \/ ch \in DOMAIN JP_DIGIT_MAP
  \/ \E d \in DOMAIN JP_DIGIT_MAP : ch = JP_DIGIT_MAP[d]

PeriodNeverStays(prev, next_ch) == FALSE

\* Line 144: the period between two digits.
PeriodStays(prev, next_ch) == IsDigit(prev) /\ IsDigit(next_ch)

translate_japanese_punct(text) ==
  IF \A i \in DOMAIN text : text[i] # "."
    THEN [i \in DOMAIN text |-> Translated(text[i])]
    ELSE [i \in DOMAIN text |->
            IF text[i] = "."
              THEN LET prev == IF i > 1 THEN text[i - 1] ELSE ""
                       next_ch == IF i + 1 <= Len(text) THEN text[i + 1] ELSE ""
                   IN IF PeriodStays(prev, next_ch)
                        THEN "."
                        ELSE JP_PUNCT_MAP["."]
              ELSE Translated(text[i])]

\* _URL_RE: the characters that end a URL.
UrlStop == {" ", "\n", "<", ">", "\""}

\* The length of the match of _URL_RE at the head of s (0: no match).
RECURSIVE UrlTail(_)
UrlTail(s) ==
  IF s = <<>> \/ Head(s) \in UrlStop THEN 0 ELSE 1 + UrlTail(Tail(s))
UrlMatch(s) ==
  IF s # <<>> /\ Head(s) \in Schemes /\ UrlTail(Tail(s)) > 0
    THEN 1 + UrlTail(Tail(s))
    ELSE 0

\* Lines 123-131: the text between the URLs translated, the URLs as they are.
RECURSIVE NormalizeParts(_, _)
NormalizeParts(s, before) ==
  IF s = <<>> THEN translate_japanese_punct(before)
  ELSE IF UrlMatch(s) > 0
    THEN translate_japanese_punct(before) \o SubSeq(s, 1, UrlMatch(s))
           \o NormalizeParts(SubSeq(s, UrlMatch(s) + 1, Len(s)), <<>>)
  ELSE NormalizeParts(Tail(s), Append(before, Head(s)))

HasScheme(text) == \E i \in DOMAIN text : text[i] \in Schemes

normalize_japanese_punct(text) ==
  IF text = <<>> THEN text
  ELSE IF ~HasScheme(text) THEN translate_japanese_punct(text)
  ELSE NormalizeParts(text, <<>>)

\* The texts normalized: every text of at most MaxText of these characters,
\* and the two examples.
PunctChars == {"3", "1", ".", "!", "y", " ", "U+FF13", "http://"}
RECURSIVE TextsUpTo(_, _)
TextsUpTo(chars, n) ==
  IF n = 0 THEN {<<>>}
  ELSE LET shorter == TextsUpTo(chars, n - 1)
       IN shorter \cup {Append(t, ch) : t \in shorter, ch \in chars}
Decimal == <<"3", ".", "1", "4">>
DecimalYay == Decimal \o <<" ", "y", "a", "y", "!">>
PunctTexts == TextsUpTo(PunctChars, MaxText) \cup {Decimal, DecimalYay}

PunctCalled ==
  /\ \E text \in PunctTexts :
       call = [fn |-> "normalize_japanese_punct", text |-> text]
  /\ result = Pending

NormalizeJapanesePunct ==
  /\ call.fn = "normalize_japanese_punct"
  /\ result = Pending
  /\ result' = Returned(normalize_japanese_punct(call.text))
  /\ UNCHANGED call
  /\ UNCHANGED <<dlvars, limvars, rlvars, fuvars, tocvars, cpvars, tpvars, imgvars, zipvars, fgvars, mvvars>>

NextPunct == NormalizeJapanesePunct

\* ------------------------------------------------------------ separators
MARK_SEPARATOR == <<"__SEPARATOR__">>
SEPARATOR_CHARS == {"-", "_", "U+FF0D", "U+FF3F", "U+2014", "U+2013", "U+2015", "U+FF70", "U+30FC", "U+2500", "U+2501"}
SEPARATOR_SYMBOLS == {"*", "U+FF0A"}

\* str.isspace() of one character.
IsSpace(ch) == ch \in {" ", "\n", "\t", "U+3000"}

IsSeparatorNoMinimum(text) ==
  LET compact == SelectSeq(text, LAMBDA ch : ~IsSpace(ch))
  IN /\ compact # <<>>
     /\ \/ \A i \in DOMAIN compact : compact[i] \in SEPARATOR_CHARS
        \/ \A i \in DOMAIN compact : compact[i] \in SEPARATOR_SYMBOLS

is_separator_line(text) ==
  LET compact == SelectSeq(text, LAMBDA ch : ~IsSpace(ch))
  IN IF compact = <<>> THEN FALSE
     ELSE IF \A i \in DOMAIN compact : compact[i] \in SEPARATOR_CHARS
       THEN Len(compact) >= 4
     ELSE IF \A i \in DOMAIN compact : compact[i] \in SEPARATOR_SYMBOLS
       THEN TRUE
     ELSE FALSE

\* An <img> tag, one character of a paragraph.
ImgTag == "<img src=\"a.png\" alt=\"\" />"

\* html_to_text: a line break becomes a newline, a tag goes.
html_to_text(para) ==
  LET broken == [i \in DOMAIN para |->
                   IF para[i] = "<br />" THEN "\n" ELSE para[i]]
  IN SelectSeq(broken, LAMBDA ch : ch # ImgTag)

\* html.unescape of the character references html.escape writes.
Unescaped(ch) ==
  IF ch = "&amp;" THEN "&"
  ELSE IF ch = "&lt;" THEN "<"
  ELSE IF ch = "&gt;" THEN ">"
  ELSE IF ch = "&quot;" THEN "\""
  ELSE ch
html_unescape(text) == [i \in DOMAIN text |-> Unescaped(text[i])]

Markers ==
  {MARK_PREFACE, MARK_PREFACE_END, MARK_AFTERWORD, MARK_AFTERWORD_END,
   MARK_SEPARATOR}

\* normalize_separator_spacing: is_blank_para
is_blank_para(para) ==
  IF para = Empty THEN TRUE
  ELSE IF para \in Markers THEN FALSE
  ELSE IF \E i \in DOMAIN para : para[i] = ImgTag THEN FALSE
  ELSE StripsToEmpty(html_unescape(html_to_text(para)))

PopNoBlanks(out) == out

\* Lines 196-197: while out and is_blank_para(out[-1]): out.pop()
RECURSIVE PopBlanks(_)
PopBlanks(out) ==
  IF out # <<>> /\ is_blank_para(out[Len(out)])
    THEN PopBlanks(SubSeq(out, 1, Len(out) - 1))
    ELSE out

\* Lines 202-203: while i < total and is_blank_para(paragraphs[i]): i += 1
\* (i is the 1-based place of paragraphs[i]).
RECURSIVE SkipBlanks(_, _)
SkipBlanks(ps, i) ==
  IF i <= Len(ps) /\ is_blank_para(ps[i]) THEN SkipBlanks(ps, i + 1) ELSE i

\* normalize_separator_spacing: the while loop from place i on.
RECURSIVE SpacingLoop(_, _, _)
SpacingLoop(ps, i, out) ==
  IF i > Len(ps) THEN out
  ELSE IF ps[i] # MARK_SEPARATOR
    THEN SpacingLoop(ps, i + 1, Append(out, ps[i]))
  ELSE LET popped == PopBlanks(out)
           before == IF popped # <<>> THEN Append(popped, Empty) ELSE popped
           marked == Append(before, ps[i])
           j == SkipBlanks(ps, i + 1)
           after == IF j <= Len(ps) THEN Append(marked, Empty) ELSE marked
       IN SpacingLoop(ps, j, after)

normalize_separator_spacing(ps) ==
  IF ps = <<>> THEN ps ELSE SpacingLoop(ps, 1, <<>>)

\* apply_separator_handling: the paragraph put out for para.
MarkSeparator(para) ==
  IF para \in Markers \/ para = Empty THEN para
  ELSE IF is_separator_line(html_unescape(html_to_text(para)))
    THEN MARK_SEPARATOR
  ELSE para

apply_separator_handling(ps) ==
  IF ps = <<>> THEN ps
  ELSE normalize_separator_spacing([i \in DOMAIN ps |-> MarkSeparator(ps[i])])

\* The lines tested: every text of at most MaxLine of these characters, and
\* "Hello".
LineChars == {"-", "_", "U+2500", "*", " ", "H"}
Hello == <<"H", "e", "l", "l", "o">>
Lines == TextsUpTo(LineChars, MaxLine) \cup {Hello}

\* The paragraphs of a chapter: blank, whitespace, a line break alone, a
\* sentence, a line of dashes, an image, a separator marker, a preface marker.
DashLine == <<"-", "-", "-", "-">>
SepParas ==
  {Empty, <<" ">>, LineBreak, Sentence, DashLine, <<ImgTag>>, MARK_SEPARATOR,
   MARK_PREFACE}
ParaLists == TextsUpTo(SepParas, MaxSepParas)

SeparatorCalled ==
  /\ \/ \E text \in Lines : call = [fn |-> "is_separator_line", text |-> text]
     \/ \E ps \in ParaLists :
          call = [fn |-> "apply_separator_handling", paragraphs |-> ps]
  /\ result = Pending

IsSeparatorLine ==
  /\ call.fn = "is_separator_line"
  /\ result = Pending
  /\ result' = Returned(is_separator_line(call.text))
  /\ UNCHANGED call
  /\ UNCHANGED <<dlvars, limvars, rlvars, fuvars, tocvars, cpvars, tpvars, imgvars, zipvars, fgvars, mvvars>>

ApplySeparatorHandling ==
  /\ call.fn = "apply_separator_handling"
  /\ result = Pending
  /\ result' = Returned(apply_separator_handling(call.paragraphs))
  /\ UNCHANGED call
  /\ UNCHANGED <<dlvars, limvars, rlvars, fuvars, tocvars, cpvars, tpvars, imgvars, zipvars, fgvars, mvvars>>

NextSeparator == IsSeparatorLine \/ ApplySeparatorHandling

\* ============================================================ backoff
\* The backoffs of _fetch_url before the retries that follow the failed
\* attempts k and k + 1, for the jitters uniform() gives.
BackoffCalled ==
  /\ \E k \in 0..MaxBackoff, j \in Jitters, j_next \in Jitters :
       call = [fn |-> "backoff", attempt |-> k, jitter |-> j,
               next_jitter |-> j_next]
  /\ result = Pending

BackoffTwice ==
  /\ call.fn = "backoff"
  /\ result = Pending
  /\ result' = Returned([backoff |-> Backoff(call.attempt, call.jitter),
                         next |-> Backoff(call.attempt + 1,
                                          call.next_jitter)])
  /\ UNCHANGED call
  /\ UNCHANGED <<dlvars, limvars, rlvars, fuvars, tocvars, cpvars, tpvars,
                 imgvars, zipvars, fgvars, mvvars>>

NextBackoff == BackoffTwice

\* ============================================================ images
\* A URL is the sequence of its parts: the scheme, the host with the
\* directory of the path, the file name and its extension.
BaseUrl == <<"https://", "host/n/">>

\* chap["url"] of the chapters; "" stands for a chapter without one.
NoChapterUrl == <<>>
ChapterUrls == {<<"https://", "host/n/1/">>, <<"https://", "host/n/2/">>}

\* The src attributes of the image tags (group 1, 2 or 3 of a match of
\* _IMG_TAG_RE): a relative one with a known extension and an absolute one
\* without an extension.
RawSrcs == {<<"a", ".png">>, <<"https://", "cdn/", "b">>}

\* urllib.parse.urljoin of a directory URL and a reference.
urljoin_src(base_url, src) ==
  IF src # <<>> /\ src[1] \in Schemes THEN src ELSE base_url \o src

normalize_image_src(raw_src, base_url) ==
  LET src == html_unescape(raw_src)
  IN IF src # <<>> /\ src[1] = "data:" THEN src
     ELSE urljoin_src(base_url, src)

\* The mutation of the membership test of line 779: nothing was seen.
SeenNothing(norm, seen_set) == FALSE

\* extract_image_sources: "if norm in seen: continue"
AlreadySeen(norm, seen_set) == norm \in seen_set

\* _guess_media_type_from_url
guess_media_type_from_url(url) ==
  LET ext == IF url = <<>> THEN "" ELSE url[Len(url)]
  IN IF ext \in {".jpg", ".jpeg"} THEN "image/jpeg"
     ELSE IF ext = ".png" THEN "image/png"
     ELSE IF ext = ".gif" THEN "image/gif"
     ELSE IF ext = ".webp" THEN "image/webp"
     ELSE IF ext = ".bmp" THEN "image/bmp"
     ELSE IF ext = ".svg" THEN "image/svg+xml"
     ELSE ""

IMG_EXT_BY_MIME ==
  "image/jpeg" :> ".jpg" @@ "image/jpg" :> ".jpg" @@ "image/png" :> ".png"
  @@ "image/gif" :> ".gif" @@ "image/webp" :> ".webp"
  @@ "image/bmp" :> ".bmp" @@ "image/svg+xml" :> ".svg"

\* _ext_from_media_type (the media types of the model are in lower case)
ext_from_media_type(media_type) ==
  IF media_type \in DOMAIN IMG_EXT_BY_MIME THEN IMG_EXT_BY_MIME[media_type]
  ELSE ""

\* content_type.split(";", 1)[0].strip() of a header given as the sequence
\* of its parts; a media type is one part.
HeaderMediaType(content_type) ==
  LET cut == IF \E i \in DOMAIN content_type : content_type[i] = ";"
             THEN CHOOSE i \in DOMAIN content_type :
                    /\ content_type[i] = ";"
                    /\ \A j \in 1..(i - 1) : content_type[j] # ";"
             ELSE Len(content_type) + 1
      first == SubSeq(content_type, 1, cut - 1)
      stripped == SelectSeq(first, LAMBDA part : part # " ")
  IN IF stripped = <<>> THEN "" ELSE stripped[1]

\* The Content-Type headers get_binary returns: an image type with a
\* parameter, none, and a type that is no key of _IMG_EXT_BY_MIME.
ContentTypes ==
  {<<"image/jpeg", ";", " ", "charset=binary">>, <<>>,
   <<"application/octet-stream">>}

\* What get_binary does for a source: it raises, or returns the bytes and the
\* Content-Type header.
ImageResponses ==
  {[ok |-> FALSE]} \cup {[ok |-> TRUE, content_type |-> h] : h \in ContentTypes}

\* fetch_one, line 844: "<header type> or _guess_media_type_from_url(src)"
MediaTypeOr(header_type, src) ==
  IF header_type # "" THEN header_type ELSE guess_media_type_from_url(src)

\* _parse_data_url: the mime type of <<"data:", mime, ",", data>>
DataUrlMediaType(src) ==
  IF Len(src) >= 2 /\ src[2] \notin {",", ";", ""} THEN src[2]
  ELSE "application/octet-stream"

\* fetch_one without the index: (src, data, media_type, err); "except
\* Exception" makes a tuple of what get_binary raises.
fetch_one(src, response) ==
  IF src # <<>> /\ src[1] = "data:"
  THEN [src |-> src, data |-> [bytes |-> src],
        media_type |-> DataUrlMediaType(src), err |-> None]
  ELSE IF ~response.ok
  THEN [src |-> src, data |-> None, media_type |-> "",
        err |-> [type |-> "FetchError"]]
  ELSE LET found == MediaTypeOr(HeaderMediaType(response.content_type), src)
       IN [src |-> src, data |-> [bytes |-> src],
           media_type |-> IF found = "" THEN "application/octet-stream"
                          ELSE found,
           err |-> None]

\* A faulty variant of line 890: the counter left out of the file name.
HrefUnnumbered(counter, ext) == <<"images/", "image", 1, ext>>

\* f"images/image{counter:03d}{ext}"
Href(counter, ext) == <<"images/", "image", counter, ext>>

\* The mutation of line 887: no item counts as failed.
FailedNever(item) == FALSE

\* Line 887: "if err or data is None"
Failed(item) == item.err # None \/ item.data = None

\* The loop of lines 883-895 from the item at index i on.
RECURSIVE NumberLoop(_, _, _, _, _)
NumberLoop(items, i, counter, map, list) ==
  IF i > Len(items) THEN [image_map |-> map, images |-> list]
  ELSE LET item == items[i]
       IN IF item = None THEN NumberLoop(items, i + 1, counter, map, list)
          ELSE IF Failed(item)
          THEN NumberLoop(items, i + 1, counter, map, list)
          ELSE LET found == ext_from_media_type(item.media_type)
                   ext == IF found = "" THEN ".bin" ELSE found
                   href == Href(counter, ext)
               IN NumberLoop(items, i + 1, counter + 1,
                             (item.src :> href) @@ map,
                             Append(list, [href |-> href,
                                           media_type |-> item.media_type,
                                           data |-> item.data]))

EmptyMap == [src \in {} |-> <<>>]

IdleImages ==
  /\ img_pc = "idle"
  /\ img_jobs = 1
  /\ chap_base = NoChapterUrl
  /\ sources = <<>>
  /\ img_seen = {}
  /\ img_fut = <<>>
  /\ img_results = <<>>
  /\ image_map = EmptyMap
  /\ images = <<>>
  /\ occurrences = <<>>
  /\ fetched = <<>>

\* download_images is called; extract_image_sources is at its first chapter.
ImagesStart ==
  /\ img_pc = "extract"
  /\ img_jobs \in 1..MaxJobs
  /\ chap_base = NoChapterUrl
  /\ sources = <<>>
  /\ img_seen = {}
  /\ img_fut = <<>>
  /\ img_results = <<>>
  /\ image_map = EmptyMap
  /\ images = <<>>
  /\ occurrences = <<>>
  /\ fetched = <<>>

\* extract_image_sources: the loop takes the next chapter.
ExtractChapter ==
  /\ img_pc = "extract"
  /\ \E url \in ChapterUrls \cup {NoChapterUrl} :
       chap_base' = IF url # NoChapterUrl THEN url ELSE BaseUrl
  /\ UNCHANGED <<img_pc, img_jobs, sources, img_seen, img_fut, img_results,
                 image_map, images, occurrences, fetched>>
  /\ UNCHANGED <<dlvars, limvars, rlvars, fuvars, tocvars, cpvars, tpvars,
                 fnvars, zipvars, fgvars, mvvars>>

\* extract_image_sources: a paragraph that is empty or a block marker, or
\* that holds no image tag.
ExtractSkip ==
  /\ img_pc = "extract"
  /\ chap_base # NoChapterUrl
  /\ UNCHANGED imgvars
  /\ UNCHANGED <<dlvars, limvars, rlvars, fuvars, tocvars, cpvars, tpvars,
                 fnvars, zipvars, fgvars, mvvars>>

\* extract_image_sources: the next match of _IMG_TAG_RE in the paragraphs of
\* the chapter in hand.
ExtractMatch ==
  /\ img_pc = "extract"
  /\ chap_base # NoChapterUrl
  /\ Len(occurrences) < MaxImgs
  /\ \E raw_src \in RawSrcs :
       LET norm == normalize_image_src(raw_src, chap_base)
       IN /\ occurrences' = Append(occurrences, norm)
          /\ IF AlreadySeen(norm, img_seen)
             THEN UNCHANGED <<sources, img_seen>>
             ELSE /\ img_seen' = img_seen \cup {norm}
                  /\ sources' = Append(sources, norm)
  /\ UNCHANGED <<img_pc, img_jobs, chap_base, img_fut, img_results,
                 image_map, images, fetched>>
  /\ UNCHANGED <<dlvars, limvars, rlvars, fuvars, tocvars, cpvars, tpvars,
                 fnvars, zipvars, fgvars, mvvars>>

\* extract_image_sources returns; lines 827-864: no source ends the call,
\* else the results are all None and the futures are submitted.
ExtractReturn ==
  /\ img_pc = "extract"
  /\ chap_base' = NoChapterUrl
  /\ img_pc' = IF sources = <<>> THEN "returned"
               ELSE IF img_jobs <= 1 \/ Len(sources) <= 1 THEN "sequential"
               ELSE "pool"
  /\ img_results' = IF sources = <<>> THEN <<>>
                    ELSE [i \in DOMAIN sources |-> None]
  /\ img_fut' = IF sources = <<>> THEN <<>>
                ELSE [i \in DOMAIN sources |-> None]
  /\ fetched' = [i \in DOMAIN sources |-> <<>>]
  /\ UNCHANGED <<img_jobs, sources, img_seen, image_map, images, occurrences>>
  /\ UNCHANGED <<dlvars, limvars, rlvars, fuvars, tocvars, cpvars, tpvars,
                 fnvars, zipvars, fgvars, mvvars>>

\* Lines 859-863: fetch_one of the next source, stored at its index.
SequentialFetch ==
  /\ img_pc = "sequential"
  /\ \E i \in DOMAIN sources :
       /\ img_results[i] = None
       /\ \A j \in 1..(i - 1) : img_results[j] # None
       /\ \E response \in ImageResponses :
            /\ img_results' =
                 [img_results EXCEPT ![i] = fetch_one(sources[i], response)]
            /\ fetched' = [fetched EXCEPT ![i] = Append(@, response)]
  /\ UNCHANGED <<img_pc, img_jobs, chap_base, sources, img_seen, img_fut,
                 image_map, images, occurrences>>
  /\ UNCHANGED <<dlvars, limvars, rlvars, fuvars, tocvars, cpvars, tpvars,
                 fnvars, zipvars, fgvars, mvvars>>

\* A worker of the executor runs fetch_one of a submitted source; the
\* future holds what it returned.
WorkerFetch ==
  /\ img_pc = "pool"
  /\ \E i \in DOMAIN sources :
       /\ img_fut[i] = None
       /\ \E response \in ImageResponses :
            /\ img_fut' =
                 [img_fut EXCEPT ![i] = fetch_one(sources[i], response)]
            /\ fetched' = [fetched EXCEPT ![i] = Append(@, response)]
  /\ UNCHANGED <<img_pc, img_jobs, chap_base, sources, img_seen, img_results,
                 image_map, images, occurrences>>
  /\ UNCHANGED <<dlvars, limvars, rlvars, fuvars, tocvars, cpvars, tpvars,
                 fnvars, zipvars, fgvars, mvvars>>

\* Lines 869-880: as_completed hands a finished future to the loop, which
\* stores its tuple at the index the tuple names (fetch_one raises nothing,
\* so "except Exception" of line 873 is not taken).
Collect ==
  /\ img_pc = "pool"
  /\ \E i \in DOMAIN sources :
       /\ img_fut[i] # None
       /\ img_results[i] = None
       /\ img_results' = [img_results EXCEPT ![i] = img_fut[i]]
  /\ UNCHANGED <<img_pc, img_jobs, chap_base, sources, img_seen, img_fut,
                 image_map, images, occurrences, fetched>>
  /\ UNCHANGED <<dlvars, limvars, rlvars, fuvars, tocvars, cpvars, tpvars,
                 fnvars, zipvars, fgvars, mvvars>>

\* Lines 882-897: every result is in; the images are numbered and
\* download_images returns.
NumberImages ==
  /\ img_pc \in {"sequential", "pool"}
  /\ \A i \in DOMAIN img_results : img_results[i] # None
  /\ LET numbered == NumberLoop(img_results, 1, 1, EmptyMap, <<>>)
     IN /\ image_map' = numbered.image_map
        /\ images' = numbered.images
  /\ img_pc' = "returned"
  /\ UNCHANGED <<img_jobs, chap_base, sources, img_seen, img_fut, img_results,
                 occurrences, fetched>>
  /\ UNCHANGED <<dlvars, limvars, rlvars, fuvars, tocvars, cpvars, tpvars,
                 fnvars, zipvars, fgvars, mvvars>>

NextImages ==
  \/ ExtractChapter
  \/ ExtractSkip
  \/ ExtractMatch
  \/ ExtractReturn
  \/ SequentialFetch
  \/ WorkerFetch
  \/ Collect
  \/ NumberImages

\* ============================================================ build_epub2
\* The volume_breaks build_epub2 is built for, for a book of n chapters:
\* (title, start_idx, end_idx) of the volumes that have chapters, in the
\* order of the book, over disjoint ranges of the chapter indices 0..n-1, as
\* build_volume_breaks makes them; the breaks main accumulates are those of
\* them that leave no chapter out. None is the empty list: line 1302 tests
\* bool().
RECURSIVE BreaksFrom(_, _)
BreaksFrom(lo, n) ==
  {<<>>} \cup
  UNION {UNION {{<<<<"Vol", s, e>>>> \o later :
                   later \in BreaksFrom(e + 1, n)} : e \in s..(n - 1)} :
           s \in lo..(n - 1)}

VolumeBreaks(n) == BreaksFrom(0, n)

\* The mutation of line 1302: one volume is a group already.
UseVolumeGroupsOfOne(volume_breaks) == Len(volume_breaks) > 0

\* Line 1302: use_volume_groups
UseVolumeGroups(volume_breaks) == Len(volume_breaks) > 1

\* Lines 1303-1314: volume_items, (item_id, filename, start_idx) of every
\* break.
VolumeItems(volume_breaks) ==
  IF UseVolumeGroups(volume_breaks)
  THEN [vol_idx \in DOMAIN volume_breaks |->
          [item_id |-> <<"vol", vol_idx>>,
           filename |-> <<"volume", vol_idx, ".xhtml">>,
           start_idx |-> volume_breaks[vol_idx][2]]]
  ELSE <<>>

\* Lines 1382-1384: volume_insert_map.get(idx, []), the ids of the volume
\* items that start at a chapter index, in the order of the items.
RECURSIVE VolumeInserts(_, _)
VolumeInserts(volume_items, idx) ==
  IF volume_items = <<>> THEN <<>>
  ELSE (IF Head(volume_items).start_idx = idx
        THEN <<Head(volume_items).item_id>> ELSE <<>>)
       \o VolumeInserts(Tail(volume_items), idx)

\* Lines 1386-1389: the loop over chapter_item_ids from index idx on.
RECURSIVE SpineLoop(_, _, _, _)
SpineLoop(spine_items, volume_items, idx, total) ==
  IF idx >= total THEN spine_items
  ELSE SpineLoop(spine_items \o VolumeInserts(volume_items, idx)
                   \o <<(<<"chap", idx + 1>>)>>,
                 volume_items, idx + 1, total)

\* Lines 1377-1389: spine_items, the idref of every itemref.
SpineItems(chapters, volume_breaks) ==
  LET include_toc == chapters > 1
      first == <<(<<"title">>)>>
                 \o (IF include_toc THEN <<(<<"toc">>)>> ELSE <<>>)
  IN SpineLoop(first, VolumeItems(volume_breaks), 0, chapters)

\* image_items as download_images returns them: the k-th item has the
\* href images/image<k><ext> and its bytes.
ImageItems(m) ==
  [k \in 1..m |-> [href |-> Href(k, ".png"), media_type |-> "image/png",
                   data |-> [bytes |-> k]]]

\* The file names of the pages (f"chapter{idx:03d}.xhtml").
ChapterFile(idx) == <<"chapter", idx, ".xhtml">>
VolumeFile(vol_idx) == <<"volume", vol_idx, ".xhtml">>

\* Line 1347: include_toc
IncludeToc(chapters) == chapters > 1

\* Lines 1349-1375: manifest_items, (id, href) of every item.
ManifestItems(chapters, volume_breaks, image_items) ==
  LET volume_items == VolumeItems(volume_breaks)
  IN <<[id |-> <<"ncx">>, href |-> <<"toc.ncx">>],
       [id |-> <<"style">>, href |-> <<"style.css">>],
       [id |-> <<"title">>, href |-> <<"title.xhtml">>]>>
     \o (IF IncludeToc(chapters)
         THEN <<[id |-> <<"toc">>, href |-> <<"toc.xhtml">>]>> ELSE <<>>)
     \o [idx \in DOMAIN image_items |->
           [id |-> <<"img", idx>>,
            href |-> IF image_items[idx].href # <<>>
                     THEN image_items[idx].href ELSE Href(idx, ".bin")]]
     \o [k \in DOMAIN volume_items |->
           [id |-> volume_items[k].item_id,
            href |-> volume_items[k].filename]]
     \o [idx \in 1..chapters |->
           [id |-> <<"chap", idx>>, href |-> ChapterFile(idx)]]

\* The mutation of line 1433: the last chapter of a volume is left out.
ChildRangeOpen(start_idx, end_idx) == start_idx..(end_idx - 1)

\* Line 1433: range(start_idx, end_idx + 1)
ChildRange(start_idx, end_idx) == start_idx..end_idx

\* A navPoint: its playOrder, the file of its content src and the navPoints
\* nested in it.
NavPoint(play_order, src, children) ==
  [play_order |-> play_order, src |-> src, children |-> children]

\* Lines 1432-1442: child_points of a volume, the first with the playOrder
\* given.
ChildPoints(play_order, start_idx, end_idx) ==
  LET count == Cardinality(ChildRange(start_idx, end_idx))
  IN [k \in 1..count |->
        NavPoint(play_order + k - 1, ChapterFile(start_idx + k), <<>>)]

\* Lines 1427-1450: the loop over volume_breaks from the break vol_idx on.
RECURSIVE VolumeNavLoop(_, _, _)
VolumeNavLoop(volume_breaks, vol_idx, play_order) ==
  IF vol_idx > Len(volume_breaks) THEN <<>>
  ELSE LET child_points == ChildPoints(play_order + 1,
                                       volume_breaks[vol_idx][2],
                                       volume_breaks[vol_idx][3])
       IN <<NavPoint(play_order, VolumeFile(vol_idx), child_points)>>
          \o VolumeNavLoop(volume_breaks, vol_idx + 1,
                           play_order + 1 + Len(child_points))

\* Lines 1408-1460: nav_points
NavPoints(chapters, volume_breaks) ==
  LET first == <<NavPoint(1, <<"title.xhtml">>, <<>>)>>
                 \o (IF IncludeToc(chapters)
                     THEN <<NavPoint(2, <<"toc.xhtml">>, <<>>)>> ELSE <<>>)
      play_order == Len(first) + 1
  IN first \o
     (IF UseVolumeGroups(volume_breaks)
      THEN VolumeNavLoop(volume_breaks, 1, play_order)
      ELSE [idx \in 1..chapters |->
              NavPoint(play_order + idx - 1, ChapterFile(idx), <<>>)])

\* Line 1409: nav_depth
NavDepth(volume_breaks) == IF UseVolumeGroups(volume_breaks) THEN 2 ELSE 1

\* The mutation of line 1502: no image is written.
ImageSkippedAlways(img) == TRUE

\* Line 1502: "if not href or data is None: continue"
ImageSkipped(img) == img.href = <<>> \/ img.data = None

\* Lines 1489-1504: the names of the entries build_epub2 writes, in order.
ArchiveEntries(chapters, volume_breaks, image_items) ==
  LET volume_items == VolumeItems(volume_breaks)
      written == SelectSeq(image_items, LAMBDA img : ~ImageSkipped(img))
  IN <<(<<"mimetype">>), (<<"META-INF/", "container.xml">>),
       (<<"OEBPS/", "content.opf">>), (<<"OEBPS/", "toc.ncx">>),
       (<<"OEBPS/", "style.css">>), (<<"OEBPS/", "title.xhtml">>)>>
     \o (IF IncludeToc(chapters) THEN <<(<<"OEBPS/", "toc.xhtml">>)>>
         ELSE <<>>)
     \o [k \in DOMAIN volume_items |-> <<"OEBPS/">> \o volume_items[k].filename]
     \o [idx \in 1..chapters |-> <<"OEBPS/">> \o ChapterFile(idx)]
     \o [k \in DOMAIN written |-> <<"OEBPS/">> \o written[k].href]

\* The entries of the call in hand.
Entries ==
  ArchiveEntries(call.chapters, call.volume_breaks, call.image_items)

IdleArchive ==
  /\ epub_pc = "idle"
  /\ zf = <<>>
  /\ out_file = "absent"

\* build_epub2 is called for a book of some chapters and images; nothing is
\* at the output path.
EpubCalled ==
  /\ \E n \in 0..MaxEpub, m \in 0..MaxImgs :
       \E breaks \in VolumeBreaks(n) :
         call = [fn |-> "build_epub2", chapters |-> n,
                 volume_breaks |-> breaks, image_items |-> ImageItems(m)]
  /\ result = Pending
  /\ epub_pc = "build"
  /\ zf = <<>>
  /\ out_file = "absent"

\* Line 1488: zipfile.ZipFile(path, "w") creates the file at the path, or
\* raises OSError and creates nothing.
ZipOpen ==
  /\ epub_pc = "build"
  /\ \E ok \in BOOLEAN :
       IF ok THEN epub_pc' = "writing" /\ out_file' = "partial"
       ELSE epub_pc' = "raised" /\ UNCHANGED out_file
  /\ UNCHANGED <<call, result, zf>>
  /\ UNCHANGED <<dlvars, limvars, rlvars, fuvars, tocvars, cpvars, tpvars,
                 imgvars, fgvars, mvvars>>

\* Lines 1489-1504: the next zf.writestr; when it raises OSError the with
\* statement closes the ZipFile and the exception leaves build_epub2,
\* write_output and main: nothing removes the file.
ZipWrite ==
  /\ epub_pc = "writing"
  /\ Len(zf) < Len(Entries)
  /\ \E ok \in BOOLEAN :
       IF ok THEN zf' = Append(zf, Entries[Len(zf) + 1]) /\ UNCHANGED epub_pc
       ELSE epub_pc' = "raised" /\ UNCHANGED zf
  /\ UNCHANGED <<call, result, out_file>>
  /\ UNCHANGED <<dlvars, limvars, rlvars, fuvars, tocvars, cpvars, tpvars,
                 imgvars, fgvars, mvvars>>

\* The with statement ends: ZipFile.close writes the central directory and
\* build_epub2 returns, or the close raises OSError.
ZipClose ==
  /\ epub_pc = "writing"
  /\ Len(zf) = Len(Entries)
  /\ \E ok \in BOOLEAN :
       IF ok
       THEN /\ epub_pc' = "returned"
            /\ out_file' = "complete"
            /\ result' =
                 Returned([spine |-> SpineItems(call.chapters,
                                                call.volume_breaks),
                           manifest |-> ManifestItems(call.chapters,
                                                      call.volume_breaks,
                                                      call.image_items),
                           nav |-> NavPoints(call.chapters,
                                             call.volume_breaks),
                           nav_depth |-> NavDepth(call.volume_breaks)])
       ELSE epub_pc' = "raised" /\ UNCHANGED <<out_file, result>>
  /\ UNCHANGED <<call, zf>>
  /\ UNCHANGED <<dlvars, limvars, rlvars, fuvars, tocvars, cpvars, tpvars,
                 imgvars, fgvars, mvvars>>

NextEpub == ZipOpen \/ ZipWrite \/ ZipClose

\* ============================================================ main
\* The chapters download_chapters returns for the links of a volume, with
\* skip_errors False: all of them.
VolumeChapters(vol_index, n_links) ==
  [k \in 1..n_links |-> <<vol_index, k>>]

\* A faulty variant of line 1811: the length of the list for its last index.
EndIndexPastEnd(merged) == Len(merged)

\* Line 1811: end_index
EndIndex(merged) == Len(merged) - 1

\* main is not running.
IdleVolumes ==
  /\ mv_pc = "idle"
  /\ format = "epub"
  /\ selected_volumes = <<>>
  /\ vol_next = 1
  /\ merged_chapters = <<>>
  /\ mv_breaks = <<>>
  /\ merged_call = None

\* The volume headings a TOC can have selected: each with its index among
\* display_volumes and the number of its chapter links, which is not 0.
SelectedVolumes ==
  UNION {{[i \in 1..Cardinality(picked) |->
             [vol_index |-> CHOOSE v \in picked :
                              Cardinality({w \in picked : w < v}) = i - 1,
              links |-> n[i]]] :
            n \in [1..Cardinality(picked) -> 1..MaxVolLinks]} :
         picked \in (SUBSET (1..MaxVolumes)) \ {{}}}

\* main, lines 1786-1788: the loop over the selected volumes begins.
VolumesStart ==
  /\ mv_pc = "loop"
  /\ format \in {"epub", "txt"}
  /\ selected_volumes \in SelectedVolumes
  /\ vol_next = 1
  /\ merged_chapters = <<>>
  /\ mv_breaks = <<>>
  /\ merged_call = None

\* Lines 1790-1836, one turn of the loop: the volume is downloaded, added
\* to merged_chapters and volume_breaks and written.
VolumeDone ==
  /\ mv_pc = "loop"
  /\ vol_next <= Len(selected_volumes)
  /\ LET volume == selected_volumes[vol_next]
         volume_title == <<"Volume", volume.vol_index>>
         chapters == VolumeChapters(volume.vol_index, volume.links)
         start_index == Len(merged_chapters)
         merged == merged_chapters \o chapters
         end_index == EndIndex(merged)
     IN IF volume.links = 0
          THEN UNCHANGED <<merged_chapters, mv_breaks>>
          ELSE /\ merged_chapters' = merged
               /\ mv_breaks' =
                    IF end_index >= start_index
                      THEN Append(mv_breaks,
                                  <<volume_title, start_index, end_index>>)
                      ELSE mv_breaks
  /\ vol_next' = vol_next + 1
  /\ UNCHANGED <<mv_pc, format, selected_volumes, merged_call>>
  /\ UNCHANGED <<dlvars, limvars, rlvars, fuvars, tocvars, cpvars, tpvars,
                 fnvars, imgvars, zipvars, fgvars>>

\* download_chapters or write_output raises in a turn of the loop: nothing
\* catches it and main ends.
VolumeRaises ==
  /\ mv_pc = "loop"
  /\ vol_next <= Len(selected_volumes)
  /\ mv_pc' = "raised"
  /\ UNCHANGED <<format, selected_volumes, vol_next, merged_chapters,
                 mv_breaks, merged_call>>
  /\ UNCHANGED <<dlvars, limvars, rlvars, fuvars, tocvars, cpvars, tpvars,
                 fnvars, imgvars, zipvars, fgvars>>

\* Lines 1845-1865: after the loop, the merged container is written when the
\* format is epub, there are breaks of more than one volume, stdin is a
\* terminal and the answer is y or yes.
MergeOrNot ==
  /\ mv_pc = "loop"
  /\ vol_next > Len(selected_volumes)
  /\ \E isatty \in BOOLEAN, choice \in {"y", "yes", "n", ""} :
       IF format = "epub" /\ Len(mv_breaks) > 1 /\ isatty
          /\ choice \in {"y", "yes"}
         THEN /\ merged_call' = [chapters |-> merged_chapters,
                                 volume_breaks |-> mv_breaks]
              /\ mv_pc' = "merged"
         ELSE /\ merged_call' = None
              /\ mv_pc' = "done"
  /\ UNCHANGED <<format, selected_volumes, vol_next, merged_chapters,
                 mv_breaks>>
  /\ UNCHANGED <<dlvars, limvars, rlvars, fuvars, tocvars, cpvars, tpvars,
                 fnvars, imgvars, zipvars, fgvars>>

NextVolumes == VolumeDone \/ VolumeRaises \/ MergeOrNot

\* ============================================================ write_txt
\* SEPARATOR_LINE = "-" * 32, as one part of a line
SEPARATOR_LINE == <<"--------------------------------">>

\* The labels of the preface and of the afterword.
PrefaceLabel == <<"U+524D", "U+66F8", "U+304D">>
AfterwordLabel == <<"U+5F8C", "U+66F8", "U+304D">>

\* write_txt: section_map.get(para), the lines of a marker (None: <<>>)
SectionOf(para) ==
  IF para = MARK_PREFACE THEN <<SEPARATOR_LINE, Empty, PrefaceLabel, Empty>>
  ELSE IF para = MARK_AFTERWORD
    THEN <<SEPARATOR_LINE, Empty, AfterwordLabel, Empty>>
  ELSE IF para \in {MARK_PREFACE_END, MARK_AFTERWORD_END, MARK_SEPARATOR}
    THEN <<SEPARATOR_LINE>>
  ELSE <<>>

\* append_block: next((ln for ln in reversed(lines) if ln != ""), "")
RECURSIVE LastNonEmpty(_)
LastNonEmpty(lines) ==
  IF lines = <<>> THEN Empty
  ELSE IF lines[Len(lines)] # Empty THEN lines[Len(lines)]
  ELSE LastNonEmpty(SubSeq(lines, 1, Len(lines) - 1))

\* append_block: while block and block[0] == "": block = block[1:]
RECURSIVE DropLeadingEmpty(_)
DropLeadingEmpty(block) ==
  IF block # <<>> /\ Head(block) = Empty THEN DropLeadingEmpty(Tail(block))
  ELSE block

\* write_txt.append_block: the lines after the block was appended.
append_block(lines, block) ==
  IF block = <<>> THEN lines
  ELSE LET cut == IF Head(block) = SEPARATOR_LINE
                     /\ LastNonEmpty(lines) = SEPARATOR_LINE
                  THEN Tail(block) ELSE block
           ends_empty == lines # <<>> /\ lines[Len(lines)] = Empty
           kept == IF ends_empty THEN DropLeadingEmpty(cut) ELSE cut
       IN IF kept = <<>> THEN lines
          ELSE IF lines # <<>> /\ lines[Len(lines)] # Empty
                  /\ Head(kept) # Empty
          THEN Append(lines, Empty) \o kept
          ELSE lines \o kept

\* replace_img_tags_for_txt: an image tag becomes a line naming the image.
RECURSIVE replace_img_tags_for_txt(_)
replace_img_tags_for_txt(para) ==
  IF para = <<>> THEN para
  ELSE (IF Head(para) = ImgTag THEN <<"\n", "[Image: a.png]", "\n">>
        ELSE <<Head(para)>>)
       \o replace_img_tags_for_txt(Tail(para))

\* write_txt: the loop over the paragraphs of a chapter from the i-th on.
RECURSIVE TxtParagraphs(_, _, _)
TxtParagraphs(out_lines, ps, i) ==
  IF i > Len(ps) THEN out_lines
  ELSE IF SectionOf(ps[i]) # <<>>
    THEN TxtParagraphs(append_block(out_lines, SectionOf(ps[i])), ps, i + 1)
  ELSE IF ps[i] = Empty
    THEN TxtParagraphs(Append(out_lines, Empty), ps, i + 1)
  ELSE TxtParagraphs(
         Append(out_lines,
                html_unescape(html_to_text(replace_img_tags_for_txt(ps[i])))),
         ps, i + 1)

\* write_txt: the loop over the chapters from the c-th on.
RECURSIVE TxtChapters(_, _, _)
TxtChapters(out_lines, chapters, c) ==
  IF c > Len(chapters) THEN out_lines
  ELSE TxtChapters(
         Append(TxtParagraphs(out_lines \o <<chapters[c].title, Empty>>,
                              chapters[c].paragraphs, 1),
                Empty),
         chapters, c + 1)

\* "\n".join(out_lines)
RECURSIVE JoinLinesOf(_)
JoinLinesOf(lines) ==
  IF lines = <<>> THEN Empty
  ELSE IF Len(lines) = 1 THEN Head(lines)
  ELSE Head(lines) \o NewLine \o JoinLinesOf(Tail(lines))

\* The lines of a text that ends with a newline.
RECURSIVE LinesOf(_, _)
LinesOf(text, line) ==
  IF text = <<>> THEN <<>>
  ELSE IF Head(text) = "\n" THEN <<line>> \o LinesOf(Tail(text), Empty)
  ELSE LinesOf(Tail(text), Append(line, Head(text)))

\* write_txt: the lines of the file written.
write_txt(book_title, book_author, chapters) ==
  LET first == <<book_title>>
                 \o (IF book_author # Empty
                     THEN <<(<<"sakusha:">> \o book_author)>>
                     ELSE <<>>)
                 \o <<Empty>>
      out_lines == TxtChapters(first, chapters, 1)
  IN LinesOf(StrStrip(JoinLinesOf(out_lines)) \o NewLine, Empty)

\* The paragraphs of a chapter: the markers, blank, a line break alone (the
\* blank line of a page, <p><br /></p>) and a sentence.
TxtParas ==
  {MARK_PREFACE, MARK_PREFACE_END, MARK_AFTERWORD, MARK_AFTERWORD_END,
   MARK_SEPARATOR, Empty, LineBreak, Sentence}

\* The chapters a list of paragraphs makes when it is cut after the first
\* cut paragraphs (a cut of -1: one chapter).
ChaptersOf(ps, cut) ==
  IF cut < 0 THEN <<[title |-> <<"Chapter", "1">>, paragraphs |-> ps]>>
  ELSE <<[title |-> <<"Chapter", "1">>, paragraphs |-> SubSeq(ps, 1, cut)],
         [title |-> <<"Chapter", "2">>,
          paragraphs |-> SubSeq(ps, cut + 1, Len(ps))]>>

\* write_txt is called for a book of one or two chapters.
TxtCalled ==
  /\ \E ps \in TextsUpTo(TxtParas, MaxTxtParas), name \in {Empty, <<"A">>} :
       \E cut \in (-1)..Len(ps) :
         call = [fn |-> "write_txt", title |-> <<"T">>, author |-> name,
                 chapters |-> ChaptersOf(ps, cut)]
  /\ result = Pending

WriteTxt ==
  /\ call.fn = "write_txt"
  /\ result = Pending
  /\ result' = Returned(write_txt(call.title, call.author, call.chapters))
  /\ UNCHANGED call
  /\ UNCHANGED <<dlvars, limvars, rlvars, fuvars, tocvars, cpvars, tpvars,
                 imgvars, zipvars, fgvars, mvvars>>

NextTxt == WriteTxt

\* ============================================================ specifications
\* download_chapters alone.
InitDownload ==
  /\ DownloadCalled
  /\ clock = 0 /\ LimiterInit(0)
  /\ IdleCallers
  /\ IdleFetch
  /\ IdleToc
  /\ IdleChapter
  /\ IdleTocParser
  /\ IdleCall
  /\ IdleImages
  /\ IdleArchive
  /\ IdleVolumes
  /\ IdleFurigana

SpecDownload == InitDownload /\ [][NextDownload]_vars

\* A RateLimiter built at time 0 and the threads calling its wait().
InitRateLimiter ==
  /\ IdleDownload
  /\ clock = 0
  /\ \E arg \in {0 - 1, 0, DEFAULT_DELAY} : LimiterInit(arg)
  /\ CallersReady
  /\ IdleFetch
  /\ IdleToc
  /\ IdleChapter
  /\ IdleTocParser
  /\ IdleCall
  /\ IdleImages
  /\ IdleArchive
  /\ IdleVolumes
  /\ IdleFurigana

SpecRateLimiter == InitRateLimiter /\ [][NextRateLimiter]_vars

\* A RateLimiter built at some time before now and one call of wait() by
\* every thread, with time passing and every thread taking its steps.
InitRateLimiterFair ==
  /\ IdleDownload
  /\ clock \in 0..DEFAULT_DELAY
  /\ min_interval = DEFAULT_DELAY
  /\ next_time = DEFAULT_DELAY
  /\ lock = 0
  /\ CallersWaiting
  /\ IdleFetch
  /\ IdleToc
  /\ IdleChapter
  /\ IdleTocParser
  /\ IdleCall
  /\ IdleImages
  /\ IdleArchive
  /\ IdleVolumes
  /\ IdleFurigana

SpecRateLimiterFair ==
  InitRateLimiterFair /\ [][NextRateLimiterFair]_vars /\ FairRateLimiter

\* One call of _fetch_url, the only user of its limiter.
InitFetch ==
  /\ IdleDownload
  /\ clock = 0
  /\ \E arg \in {0, DEFAULT_DELAY} : LimiterInit(arg)
  /\ IdleCallers
  /\ FetchCalled
  /\ IdleToc
  /\ IdleChapter
  /\ IdleTocParser
  /\ IdleCall
  /\ IdleImages
  /\ IdleArchive
  /\ IdleVolumes
  /\ IdleFurigana

SpecFetch == InitFetch /\ [][NextFetch]_vars

\* main from the TOC walk to the volumes of the selection.
InitToc ==
  /\ IdleDownload
  /\ clock = 0 /\ LimiterInit(0)
  /\ IdleCallers
  /\ IdleFetch
  /\ TocStart
  /\ IdleChapter
  /\ IdleTocParser
  /\ IdleCall
  /\ IdleImages
  /\ IdleArchive
  /\ IdleVolumes
  /\ IdleFurigana

SpecToc == InitToc /\ [][NextToc]_vars

\* The same, with main taking its next step whenever it has one.
SpecTocFair == SpecToc /\ WF_vars(NextToc)

\* One call of parse_chapter_page.
InitChapter ==
  /\ IdleDownload
  /\ clock = 0 /\ LimiterInit(0)
  /\ IdleCallers
  /\ IdleFetch
  /\ IdleToc
  /\ ChapterStart
  /\ IdleTocParser
  /\ IdleCall
  /\ IdleImages
  /\ IdleArchive
  /\ IdleVolumes
  /\ IdleFurigana

SpecChapter == InitChapter /\ [][NextChapter]_vars

\* One call of parse_chapter_page or of parse_toc_page.
InitParsers ==
  /\ IdleDownload
  /\ clock = 0 /\ LimiterInit(0)
  /\ IdleCallers
  /\ IdleFetch
  /\ IdleToc
  /\ \/ ChapterStart /\ IdleTocParser
     \/ IdleChapter /\ TocParserStart
  /\ IdleCall
  /\ IdleImages
  /\ IdleArchive
  /\ IdleVolumes
  /\ IdleFurigana

SpecParsers == InitParsers /\ [][NextParsers]_vars

\* The components that are not running while a function is called alone.
IdleProgram ==
  /\ IdleDownload
  /\ clock = 0 /\ LimiterInit(0)
  /\ IdleCallers
  /\ IdleFetch
  /\ IdleToc
  /\ IdleChapter
  /\ IdleTocParser
  /\ IdleImages
  /\ IdleFurigana
  /\ IdleVolumes

\* One call of normalize_japanese_punct.
InitPunct == IdleProgram /\ IdleArchive /\ PunctCalled

SpecPunct == InitPunct /\ [][NextPunct]_vars

\* One call of is_separator_line or of apply_separator_handling.
InitSeparator == IdleProgram /\ IdleArchive /\ SeparatorCalled

SpecSeparator == InitSeparator /\ [][NextSeparator]_vars

\* One call of download_images.
InitImages ==
  /\ IdleDownload
  /\ clock = 0 /\ LimiterInit(0)
  /\ IdleCallers
  /\ IdleFetch
  /\ IdleToc
  /\ IdleChapter
  /\ IdleTocParser
  /\ IdleCall
  /\ IdleArchive
  /\ IdleVolumes
  /\ IdleFurigana
  /\ ImagesStart

SpecImages == InitImages /\ [][NextImages]_vars

\* One call of build_epub2.
InitEpub == IdleProgram /\ EpubCalled

SpecEpub == InitEpub /\ [][NextEpub]_vars

\* One call of write_txt.
InitTxt == IdleProgram /\ IdleArchive /\ TxtCalled

SpecTxt == InitTxt /\ [][NextTxt]_vars

\* One page and the parsers of both modes.
InitFurigana ==
  /\ IdleDownload
  /\ clock = 0
  /\ LimiterInit(0)
  /\ IdleCallers
  /\ IdleFetch
  /\ IdleToc
  /\ IdleChapter
  /\ IdleTocParser
  /\ IdleCall
  /\ IdleImages
  /\ IdleArchive
  /\ IdleVolumes
  /\ FuriganaStart

SpecFurigana == InitFurigana /\ [][NextFurigana]_vars

\* A run split by volumes, from the start of its volume loop.
InitVolumes ==
  /\ IdleDownload
  /\ clock = 0
  /\ LimiterInit(0)
  /\ IdleCallers
  /\ IdleFetch
  /\ IdleToc
  /\ IdleChapter
  /\ IdleTocParser
  /\ IdleCall
  /\ IdleImages
  /\ IdleArchive
  /\ IdleFurigana
  /\ VolumesStart

SpecVolumes == InitVolumes /\ [][NextVolumes]_vars

\* The backoffs of two consecutive retries.
InitBackoff == IdleProgram /\ IdleArchive /\ BackoffCalled

SpecBackoff == InitBackoff /\ [][NextBackoff]_vars

\* ============================================================ properties
\* The concurrent path was taken.
Concurrent == ~(jobs <= 1 \/ Len(links) <= 1)

\* download_chapters has returned or raised.
Finished == dl_pc \in {"returned", "raised"}

\* The items whose fetch succeeds / fails.
Succeeding == {k \in Items : outcome[k].ok}
Failing == {k \in Items : ~outcome[k].ok}

\* The collector has seen a failed future in fail-fast mode.
FailureObserved == ~skip_errors /\ Concurrent /\ errors # <<>>

\* The items that were running when the collector saw the failure.
InFlight == {k \in DOMAIN seen : seen[k] = "running"}

\* C1: with jobs > 1 and no failing item, the returned list is the input list
\* item by item: entry k is the chapter built from input k, whatever the order
\* in which the workers completed.
C1_InputOrder ==
  (dl_pc = "returned" /\ jobs > 1 /\ Failing = {})
    => /\ Len(dl_ret) = Len(links)
       /\ \A k \in Items : /\ dl_ret[k].url = links[k]
                           /\ dl_ret[k] = MakeChapter(k, links[k], outcome[k])

\* C1 witness: three chapters returned by the pool after a later item was
\* stored before an earlier one.
C1_Witness ==
  /\ dl_pc = "returned" /\ Concurrent /\ Failing = {}
  /\ Len(links) = MaxLinks /\ reordered

\* C2: in skip-errors mode no item makes download_chapters raise, and the list
\* returned holds exactly the chapters of the succeeding items, in input order,
\* with no None entry.
C2_SkipErrors ==
  skip_errors =>
    /\ dl_pc # "raised"
    /\ dl_exc = None
    /\ dl_pc = "returned" =>
         /\ Len(dl_ret) = Cardinality(Succeeding)
         /\ \A i \in 1..Len(dl_ret) : dl_ret[i] # None
         /\ \A k \in Succeeding :
              dl_ret[Cardinality({j \in Succeeding : j <= k})]
                = MakeChapter(k, links[k], outcome[k])

\* C2 witness: the pool returned with a failed item between two good ones,
\* the later good one stored first.
C2_Witness ==
  /\ skip_errors /\ dl_pc = "returned" /\ Concurrent /\ reordered
  /\ \E k \in Failing : (k - 1) \in Succeeding /\ (k + 1) \in Succeeding

\* C3: in fail-fast mode, a run in which an item's fetch fails ends with no
\* list returned and one failure that reports the URL of a failing item.
C3_FailFastNamesUrl ==
  (~skip_errors /\ Finished /\ Failing # {})
    => /\ dl_pc = "raised"
       /\ dl_ret = None
       /\ dl_exc # None
       /\ dl_exc.names \in {links[k] : k \in Failing}

\* C4 as claimed: once the collector has seen the failure, no item that is
\* still pending is ever started.
C4_NoStartOnceObserved ==
  [][FailureObserved =>
       \A k \in Items : fut[k] = "pending" => fut'[k] # "running"]_vars

\* C4 as amended: once the cancel loop has passed an item, the item is not
\* pending any more (it is cancelled, was started before its cancel call, or
\* has finished) and no fetch is started for it afterwards; a cancelled item
\* stays cancelled.
C4_NoStartOnceCancelled ==
  [][FailureObserved =>
       \A k \in Items :
         /\ k < cancel_i => fut[k] # "pending" /\ fut'[k] # "pending"
         /\ (k < cancel_i /\ fut[k] # "running") => fut'[k] # "running"
         /\ fut[k] = "cancelled" => fut'[k] = "cancelled"]_vars

\* C4 witness: the failure reached the caller with an item cancelled and
\* another one, pending when the failure was seen, started and finished.
C4_Witness ==
  /\ dl_pc = "raised" /\ Concurrent
  /\ \E k \in Items : fut[k] = "cancelled"
  /\ \E k \in Items : seen[k] = "pending" /\ fut[k] \in {"ok", "err"}

\* C5: in fail-fast mode with jobs > 1 the failure reaches the caller only
\* when no worker is running any more: every item in flight when the failure
\* was seen has run to its end (it was not cancelled), and no list is returned.
C5_InFlightFinish ==
  (dl_pc = "raised" /\ Concurrent)
    => /\ Running = {}
       /\ \A k \in InFlight : fut[k] \in {"ok", "err"}
       /\ dl_ret = None

\* C5 witness: the failure reached the caller and some item was in flight
\* when it was seen.
C5_Witness == dl_pc = "raised" /\ Concurrent /\ InFlight # {}

\* C6: a finished run of the concurrent path has the outcome the sequential
\* loop has for the same links and the same per-item outcomes: the same list,
\* and in fail-fast mode a failure of the same kind that names a failing URL.
C6_SameAsSequential ==
  (Finished /\ Concurrent) =>
    LET s == SeqLoop(links, outcome, skip_errors, 1, <<>>) IN
      /\ dl_ret = s.ret
      /\ (dl_exc = None) <=> (s.exc = None)
      /\ dl_exc # None =>
           /\ s.exc.type = dl_exc.type
           /\ s.exc.names \in {links[k] : k \in Failing}

\* C7 as claimed: with min_interval > 0, the return times of any two
\* consecutive wait() calls differ by at least min_interval.
C7_ReturnsSpaced ==
  (min_interval > 0 /\ grant_prev # 0 - 1)
    => grant_last.ret - grant_prev >= min_interval

\* C7 as amended: with min_interval > 0, no call returns before the wake time
\* it was given under the lock, the wake times given to consecutive calls
\* differ by at least min_interval, and so do the return times of consecutive
\* calls as long as every call has returned exactly at its wake time.
C7_WakeTimesSpaced ==
  min_interval > 0 =>
    /\ grant_last.ret # 0 - 1 => grant_last.ret >= grant_last.sched
    /\ sched_prev # 0 - 1 => sched_last - sched_prev >= min_interval
    /\ (~overshot /\ grant_prev # 0 - 1)
         => grant_last.ret - grant_prev >= min_interval

\* C7 witness: two calls have returned, each exactly at its wake time, while
\* a third call is scheduled.
C7_Witness ==
  /\ min_interval > 0 /\ ~overshot
  /\ grant_prev # 0 - 1
  /\ sched_last > grant_last.sched

\* C8: _fetch_url makes at most retries + 1 HTTP attempts; every attempt but
\* the last one failed with a retryable error; when every attempt failed with
\* a retryable error there were exactly retries + 1 of them; and a successful
\* attempt is the last one.
C8_AttemptBudget ==
  /\ n_attempts <= retries + 1
  /\ n_retryable >= n_attempts - 1
  /\ (fu_pc \in {"returned", "raised"} /\ n_retryable = n_attempts)
       => n_attempts = retries + 1
  /\ fu_resp = OkResponse => fu_pc \in {"handle", "returned"}
  /\ fu_pc = "returned" => fu_resp = OkResponse

\* C8 witness: every one of the retries + 1 attempts failed with a retryable
\* error, for the largest retry count.
C8_Witness ==
  /\ fu_pc = "raised" /\ retries = MaxRetries
  /\ n_attempts = retries + 1 /\ n_retryable = n_attempts

\* C9: when all retries + 1 attempts failed with retryable errors, the
\* exception that leaves _fetch_url names the URL and the last error.
C9_ExhaustedNamesUrl ==
  (fu_pc = "raised" /\ n_attempts = retries + 1 /\ n_retryable = n_attempts)
    => /\ fu_exc.names = fu_url
       /\ fu_exc.type = "RuntimeError"
       /\ fu_exc.cause = last_err.type

\* C10: an HTTP error with a status outside 429/500/502/503/504 leaves
\* _fetch_url in the step after the attempt: it is the exception raised, and
\* no backoff sleep, no passing of time and no further attempt comes between.
C10_NonRetryableAtOnce ==
  [][(fu_pc = "handle" /\ fu_resp.type = "HTTPError"
        /\ fu_resp.code \notin RetryCodes)
       => /\ fu_pc' = "raised"
          /\ fu_exc' = fu_resp
          /\ slept' = slept
          /\ clock' = clock
          /\ n_attempts' = n_attempts
          /\ n_waits' = n_waits]_vars

\* C10 witness: a 404 on the first attempt has left _fetch_url with the whole
\* retry budget unused.
C10_Witness ==
  /\ fu_pc = "raised" /\ fu_exc = HTTPError(404)
  /\ retries = MaxRetries /\ n_attempts = 1 /\ slept = <<>>

WalkOver == toc_pc \notin {"loop", "items"}

\* The loop was left by its own tests (no fetch failed).
WalkLeft == toc_pc \in {"walked", "no_chapters", "bad_range", "selected"}

\* The field a page gave, Empty when no page gave one.
FieldOf(name, url) == IF url = Empty THEN Empty ELSE PageField(name, url)

\* The positions of toc_items that hold a chapter, and the one that holds url.
ChapterPositions == {p \in DOMAIN toc_items : toc_items[p].type = "chapter"}
TocPos(url) == CHOOSE p \in ChapterPositions : toc_items[p].href = url

\* The headings of toc_items, in order, and those before position p.
Headings == {p \in DOMAIN toc_items : toc_items[p].type = "volume"}
HeadingsBefore(p) == {h \in Headings : h < p}

\* A chapter comes before every heading: there is an implicit first volume.
Implicit == toc_items # <<>> /\ toc_items[1].type = "chapter"

\* The volume of the item at position p: the one its nearest heading before
\* it (or the heading itself) opened, the implicit one when there is none.
GroupOfPos(p) ==
  Cardinality({h \in Headings : h <= p}) + (IF Implicit THEN 1 ELSE 0)

\* The 1-based place of url in chapter_links.
PlaceOf(url) == CHOOSE i \in DOMAIN chapter_links : chapter_links[i] = url

\* C12: the walk over the pages ends, whatever the next links are (a cycle
\* included); the loop is left by its own tests only when the page has no
\* next link or the next page URL was fetched before, and then no further
\* page is fetched; no page URL is fetched twice.
C12_WalkTerminates ==
  /\ <>WalkOver
  /\ [](\A u \in DOMAIN fetches : fetches[u] <= 1)
  /\ [][(toc_pc = "loop" /\ toc_pc' \in {"walked", "no_chapters"})
          => (next_url = Empty \/ fetches[next_url] > 0)]_vars
  /\ [][(toc_pc = "loop" /\ (next_url = Empty \/ fetches[next_url] > 0))
          => (fetches' = fetches /\ toc_pc' # "items")]_vars

\* C12 witness: the walk has fetched every page of a site whose last page
\* links back to a page fetched before, and has left the loop there.
C12_Witness ==
  /\ WalkLeft
  /\ next_url # Empty /\ next_url \in seen_pages
  /\ seen_pages = TocPages

\* C13: the chapter URLs of the merged list are the absolute URLs the pages
\* have shown, each once, in the order in which they were first shown; the
\* same holds for chapter_links once it is built.
C13_FirstDiscoveryOrder ==
  LET cl == ChapterLinks(toc_items) IN
    /\ cl = discovered
    /\ \A i, j \in DOMAIN cl : cl[i] = cl[j] => i = j
    /\ \A i \in DOMAIN cl : \E k \in 1..MaxChapters : cl[i] = Url(k)
    /\ WalkLeft => chapter_links = cl
    /\ seen_links = {cl[i] : i \in DOMAIN cl}

\* C13 witness: every chapter is in the list of a site of several pages, and
\* some link was shown again after its first showing.
C13_Witness ==
  /\ toc_pc = "walked"
  /\ Len(chapter_links) = MaxChapters
  /\ Cardinality(seen_pages) > 1
  /\ "link" \in skipped

\* C14: title, author and synopsis are each the value of the first page that
\* carried a non-empty one (the title falls back to "syosetu" after the walk
\* when no page carried one).
C14_FirstPageWins ==
  /\ author = FieldOf("author", first_page.author)
  /\ summary = FieldOf("summary", first_page.summary)
  /\ toc_pc \in {"loop", "items", "failed"}
       => title = FieldOf("title", first_page.title)
  /\ WalkLeft
       => title = (IF first_page.title = Empty THEN <<"syosetu">>
                   ELSE FieldOf("title", first_page.title))

\* C14 witness: the fields were set by different pages, and a later page
\* carried a value for a field that was set already.
C14_Witness ==
  /\ WalkLeft
  /\ "field" \in skipped
  /\ first_page.title = book_url
  /\ first_page.author \notin {Empty, book_url}

\* C15: the merged list never holds two volume headings of the same title one
\* directly after the other.
C15_NoRepeatedHeading ==
  \A i \in 1..(Len(toc_items) - 1) :
    ~(/\ toc_items[i].type = "volume"
      /\ toc_items[i + 1].type = "volume"
      /\ toc_items[i].title = toc_items[i + 1].title)

\* C15 witness: a heading that repeated the last entry of the list was left
\* out, on a later page than the first, and the list holds two headings of
\* different titles side by side.
C15_Witness ==
  /\ "heading" \in skipped
  /\ Cardinality(seen_pages) > 1
  /\ \E i \in 1..(Len(toc_items) - 1) :
       toc_items[i].type = "volume" /\ toc_items[i + 1].type = "volume"

\* The chapters of the selection: those at the positions in indices.
Selected == {chapter_links[i] : i \in indices}

\* The URLs of the chapters of volume g, and the places where url stands in it.
InVolume(g) == {volumes[g].chapters[i] : i \in DOMAIN volumes[g].chapters}
PlacesIn(g, url) == {i \in DOMAIN volumes[g].chapters : volumes[g].chapters[i] = url}

\* C16: build_volumes gives one volume for each heading, and one before them
\* when a chapter comes before every heading; each selected chapter stands
\* once in the volume of its nearest heading before it (the implicit one when
\* there is none) and in no other; a volume holds nothing else, its chapter
\* URLs are distinct and in TOC order, and a heading's volume has its title.
C16_OneVolumePerChapter ==
  toc_pc = "selected" =>
    /\ Len(volumes) = Cardinality(Headings) + (IF Implicit THEN 1 ELSE 0)
    /\ found_volume = (Headings # {})
    /\ \A u \in Selected :
         \A g \in DOMAIN volumes :
           Cardinality(PlacesIn(g, u)) = (IF g = GroupOfPos(TocPos(u)) THEN 1 ELSE 0)
    /\ \A g \in DOMAIN volumes :
         /\ InVolume(g) \subseteq Selected
         /\ \A i, j \in DOMAIN volumes[g].chapters :
              i < j => TocPos(volumes[g].chapters[i]) < TocPos(volumes[g].chapters[j])
    /\ \A h \in Headings : volumes[GroupOfPos(h)].title = toc_items[h].title
    /\ Implicit => volumes[1].title = DefaultVolumeTitle(1)

\* C16 witness: every chapter is selected without a range, and the volumes
\* are the implicit one and one that a heading opened, each with a chapter.
C16_Witness ==
  /\ toc_pc = "selected"
  /\ Implicit
  /\ Cardinality(Headings) = 1
  /\ sel_range = None
  /\ Len(selected_links) = MaxChapters
  /\ \A g \in DOMAIN volumes : volumes[g].chapters # <<>>

\* The list a two-page TOC gives with three chapters and one heading before
\* the second chapter.
ExampleToc ==
  <<TocChapter(Url(1)), TocVolume(<<"volume", "A">>),
    TocChapter(Url(2)), TocChapter(Url(3))>>

\* C17: with a chapter range N-M, each volume holds exactly its own chapters
\* whose place in the chapter list is in N..M, in the order of the list, and
\* the other volumes are empty; the two-page TOC with three chapters and a
\* heading before the second gives the volumes {1} and {2, 3}, and the range
\* 2-3 leaves only the second one populated.
C17_RangePopulatesVolumes ==
  toc_pc = "selected" =>
    LET N == IF sel_range = None THEN 1 ELSE sel_range.start
        M == IF sel_range = None THEN Len(chapter_links) ELSE sel_range.end
        Own(g) == {i \in N..M : GroupOfPos(TocPos(chapter_links[i])) = g}
    IN /\ \A g \in DOMAIN volumes :
            /\ Len(volumes[g].chapters) = Cardinality(Own(g))
            /\ \A i \in Own(g) :
                 volumes[g].chapters[Cardinality({j \in Own(g) : j <= i})]
                   = chapter_links[i]
       /\ selected_links = SubSeq(chapter_links, N, M)
       /\ (toc_items = ExampleToc /\ sel_range = None)
            => /\ volumes[1].chapters = <<Url(1)>>
               /\ volumes[2].chapters = <<Url(2), Url(3)>>
       /\ (toc_items = ExampleToc /\ sel_range = NumberRange(2, 3))
            => /\ volumes[1].chapters = <<>>
               /\ volumes[2].chapters = <<Url(2), Url(3)>>
               /\ Len(display_volumes(volumes)) = 1
               /\ display_volumes(volumes)[1] = volumes[2]

\* C17 witness: the example TOC, walked over two pages, with the range 2-3.
C17_Witness ==
  /\ toc_pc = "selected"
  /\ toc_items = ExampleToc
  /\ Cardinality(seen_pages) = 2
  /\ sel_range = NumberRange(2, 3)
  /\ Len(volumes) = 2

\* ------------------------------------------------------------ chapter pages
\* The number of blank markers a paragraph sequence ends with.
RECURSIVE TrailingBlanks(_)
TrailingBlanks(ps) ==
  IF ps # <<>> /\ ps[Len(ps)] = Empty
    THEN 1 + TrailingBlanks(SubSeq(ps, 1, Len(ps) - 1))
    ELSE 0

\* The step of handle_endtag that closes a text block.
BlockCloses == parser.text_block_depth = 1 /\ parser'.text_block_depth = 0

\* C18: the sequence parse_chapter_page returns never ends with a blank
\* marker; it is what the parser collected without its trailing blanks, every
\* one of them, and with everything else (blanks inside included) in place.
C18_TrailingBlanksTrimmed ==
  cp_pc = "returned" =>
    /\ paragraphs = <<>> \/ paragraphs[Len(paragraphs)] # Empty
    /\ Len(paragraphs) <= Len(fed)
    /\ paragraphs = SubSeq(fed, 1, Len(paragraphs))
    /\ \A i \in (Len(paragraphs) + 1)..Len(fed) : fed[i] = Empty

\* C18 witness: two or more trailing blanks were trimmed from a sequence that
\* keeps a blank between two of its paragraphs.
C18_Witness ==
  /\ cp_pc = "returned"
  /\ Len(fed) >= Len(paragraphs) + 2
  /\ \E i \in DOMAIN paragraphs : paragraphs[i] = Empty

\* The pages of a preface block of one sentence followed by an empty
\* paragraph tag.
PrefaceExamples == {"preface_then_empty_p", "preface_then_bare_empty_p"}

\* C19 as claimed: a preface block of one sentence followed by an empty
\* paragraph tag yields [preface-start, "sentence", preface-end, blank], the
\* trimming keeping one blank after preface-end.
C19_KeepsOneBlank ==
  (cp_pc = "returned" /\ page \in PrefaceExamples) =>
    paragraphs = <<MARK_PREFACE, Sentence, MARK_PREFACE_END, Empty>>

\* C19 as amended: the page yields [preface-start, "sentence", preface-end],
\* the trimming removing the blank of the empty paragraph and the blank that
\* closed the preface block; with the empty paragraph inside the preface block
\* it yields [preface-start, "sentence", blank, preface-end].
C19_PrefaceExample ==
  cp_pc = "returned" =>
    /\ page = "preface_then_empty_p" =>
         /\ fed = <<MARK_PREFACE, Sentence, MARK_PREFACE_END, Empty, Empty>>
         /\ paragraphs = <<MARK_PREFACE, Sentence, MARK_PREFACE_END>>
    /\ page = "preface_then_bare_empty_p" =>
         /\ fed = <<MARK_PREFACE, Sentence, MARK_PREFACE_END, Empty>>
         /\ paragraphs = <<MARK_PREFACE, Sentence, MARK_PREFACE_END>>
    /\ page = "preface_with_empty_p" =>
         /\ fed = <<MARK_PREFACE, Sentence, Empty, MARK_PREFACE_END, Empty>>
         /\ paragraphs = <<MARK_PREFACE, Sentence, Empty, MARK_PREFACE_END>>

\* C19 witness: parse_chapter_page has returned for the page of a preface
\* block followed by a text block of one empty paragraph, two blanks trimmed.
C19_Witness ==
  /\ cp_pc = "returned"
  /\ page = "preface_then_empty_p"
  /\ Len(fed) = Len(paragraphs) + 2

\* C20 as claimed: when a text block closes, the sequence built so far ends
\* with at most one blank marker.
C20_AtMostOneBlank ==
  [][BlockCloses => TrailingBlanks(parser'.paragraphs) <= 1]_vars

\* C20 as amended: the close of a text block removes nothing and appends at
\* most one blank: a preface or afterword block gets its end marker and one
\* blank; any other block gets a blank only when the sequence is not empty and
\* does not end with one, so the blanks of empty paragraphs at the end of the
\* block all stay.
C20_BlockCloseBlank ==
  [][BlockCloses =>
       LET old == parser.paragraphs
           new == parser'.paragraphs
           label == parser.block_label_end
       IN /\ label # Empty => new = old \o <<label, Empty>>
          /\ label = Empty =>
               /\ new \in {old, Append(old, Empty)}
               /\ TrailingBlanks(new) =
                    IF old = <<>> THEN 0 ELSE Max(1, TrailingBlanks(old))]_vars

\* C20 witness: a text block that ended with two empty paragraphs has closed,
\* and the sequence ends with two blanks.
C20_Witness ==
  /\ cp_pc = "feeding"
  /\ page = "blank_lines"
  /\ rest = <<>>
  /\ parser.text_block_depth = 0
  /\ TrailingBlanks(parser.paragraphs) = 2

\* The markers of the blocks, in the order of the sequence.
StartMarkers == {MARK_PREFACE, MARK_AFTERWORD}
EndMarkers == {MARK_PREFACE_END, MARK_AFTERWORD_END}
EndOf(marker) ==
  IF marker = MARK_PREFACE THEN MARK_PREFACE_END ELSE MARK_AFTERWORD_END
MarkersOf(ps) ==
  SelectSeq(ps, LAMBDA para : para \in StartMarkers \cup EndMarkers)

\* The start marker of the block a top-level div of these attributes opens
\* (Empty: none), the preface class taking precedence.
StartMarkerOf(attrs) ==
  IF has_class(attrs, "p-novel__text--preface") THEN MARK_PREFACE
  ELSE IF has_class(attrs, "p-novel__text--afterword") THEN MARK_AFTERWORD
  ELSE Empty

\* The markers before and after a handler call differ by these.
MarkersAdded(self, new, added) ==
  MarkersOf(new.paragraphs) = MarkersOf(self.paragraphs) \o added

\* The markers are paired: each start marker is followed by its own end
\* marker, but for the start marker of the block that is still open.
MarkersPaired(self) ==
  LET ms == MarkersOf(self.paragraphs)
  IN /\ \A i \in DOMAIN ms :
          IF i % 2 = 1
            THEN /\ ms[i] \in StartMarkers
                 /\ i < Len(ms) => ms[i + 1] = EndOf(ms[i])
                 /\ i = Len(ms) =>
                      /\ self.text_block_depth > 0
                      /\ self.block_label_end = EndOf(ms[i])
            ELSE ms[i] \in EndMarkers
     /\ Len(ms) % 2 = 0 => self.block_label_end = Empty

\* C21: a start marker is appended exactly by the start of a div of the
\* preface or afterword class outside any text block, the end marker of the
\* open block exactly by the end of a div at depth 1; a div inside a text
\* block only moves the depth, whatever its class, and no other tag or text
\* appends a marker; so the markers of the sequence are paired, each start
\* marker followed by its own end marker before any other start marker.
C21_MarkersPaired ==
  /\ MarkersPaired(parser)
  /\ \A tag \in Tags : \A attrs \in TagAttrs(tag) :
       LET new == handle_starttag(parser, tag, attrs)
           opens == /\ tag = "div" /\ parser.text_block_depth = 0
                    /\ StartMarkerOf(attrs) # Empty
       IN /\ opens =>
               /\ MarkersAdded(parser, new, <<StartMarkerOf(attrs)>>)
               /\ new.text_block_depth = 1
          /\ ~opens => MarkersAdded(parser, new, <<>>)
          /\ (tag = "div" /\ parser.text_block_depth > 0) =>
               /\ new.text_block_depth = parser.text_block_depth + 1
               /\ new.paragraphs = parser.paragraphs
               /\ new.block_label_end = parser.block_label_end
  /\ \A tag \in Tags :
       LET new == handle_endtag(parser, tag)
           closes == /\ tag = "div" /\ parser.text_block_depth = 1
                     /\ parser.block_label_end # Empty
       IN /\ closes =>
               /\ MarkersAdded(parser, new, <<parser.block_label_end>>)
               /\ new.text_block_depth = 0
          /\ ~closes => MarkersAdded(parser, new, <<>>)
          /\ (tag = "div" /\ parser.text_block_depth > 1) =>
               /\ new.text_block_depth = parser.text_block_depth - 1
               /\ new.paragraphs = parser.paragraphs
               /\ new.block_label_end = parser.block_label_end
  /\ \A data \in Texts : MarkersAdded(parser, handle_data(parser, data), <<>>)
  /\ \A tag \in Tags :
       MarkersAdded(parser, handle_startendtag(parser, tag), <<>>)

\* C21 witness: a preface block that held a container of the afterword class
\* has closed, and an afterword block after it.
C21_Witness ==
  /\ page = "nested_blocks"
  /\ rest = <<>>
  /\ parser.paragraphs =
       <<MARK_PREFACE, Sentence, Sentence, MARK_PREFACE_END, Empty,
         MARK_AFTERWORD, MARK_AFTERWORD_END, Empty>>

\* ------------------------------------------------------------ both parsers
\* C22: on any sequence of events, close tags without their open tags and
\* blocks never closed included, each handler call of the two extractors has
\* a result, the extractor returns its title and its list, and the nesting
\* counters (text-block depth, chapter-list depth, synopsis depth, furigana
\* skip depth) are never negative.
C22_ExtractorsTotal ==
  /\ parser.text_block_depth >= 0
  /\ parser.ruby_skip_depth >= 0
  /\ toc_parser.eplist_depth >= 0
  /\ toc_parser.summary_depth >= 0
  /\ toc_parser.ruby_skip_depth >= 0
  /\ cp_pc = "feeding" => ENABLED NextChapter
  /\ tp_pc = "feeding" => ENABLED NextTocParser
  /\ cp_pc = "returned" => Len(page_title) >= 0 /\ Len(paragraphs) >= 0
  /\ tp_pc = "returned" => Len(tp_ret.title) >= 0 /\ Len(tp_ret.items) >= 0

\* C22 witness: parse_chapter_page has returned an empty title and an empty
\* list for the page of excess close tags and a block never closed, in
\* remove-furigana mode.
C22_Witness ==
  /\ cp_pc = "returned"
  /\ page = "malformed"
  /\ parser.remove_furigana
  /\ parser.text_block_depth = 1
  /\ parser.ruby_skip_depth = 0
  /\ paragraphs = <<>>
  /\ page_title = Empty

\* ------------------------------------------------------------ punctuation
\* C23: on a text without http:// or https://, normalizing the normalized
\* text gives the normalized text.
C23_Idempotent ==
  (call.fn = "normalize_japanese_punct" /\ result.done
     /\ ~HasScheme(call.text)) =>
    normalize_japanese_punct(result.value) = result.value

\* C23 witness: a text without a URL was changed by the pass, with a period
\* between two digits kept.
C23_Witness ==
  /\ call.fn = "normalize_japanese_punct" /\ result.done
  /\ ~HasScheme(call.text)
  /\ result.value # call.text
  /\ \E i \in DOMAIN result.value : result.value[i] = "."

\* A text of digits and one period between two of them.
IsDecimal(text) ==
  /\ Len(text) >= 3
  /\ \E i \in 2..(Len(text) - 1) :
       /\ text[i] = "."
       /\ \A j \in DOMAIN text \ {i} : text[j] \in DOMAIN JP_DIGIT_MAP

\* C24 as claimed: a text of digits and one period between two of them is
\* returned unchanged, and in "3.14 yay!" only the "!" is changed.
C24_DecimalUnchanged ==
  (call.fn = "normalize_japanese_punct" /\ result.done) =>
    /\ IsDecimal(call.text) => result.value = call.text
    /\ call.text = DecimalYay =>
         \A i \in 1..(Len(DecimalYay) - 1) : result.value[i] = call.text[i]

\* C24 as amended: in a text of digits and one period between two of them the
\* period is kept and every digit becomes its full-width digit; in
\* "3.14 yay!" the digits and the "!" are changed, the period, the space and
\* the letters kept.
C24_DecimalPointKept ==
  (call.fn = "normalize_japanese_punct" /\ result.done) =>
    /\ IsDecimal(call.text) =>
         /\ Len(result.value) = Len(call.text)
         /\ \A i \in DOMAIN call.text :
              result.value[i] =
                IF call.text[i] = "." THEN "." ELSE JP_DIGIT_MAP[call.text[i]]
    /\ call.text = DecimalYay =>
         result.value =
           <<"U+FF13", ".", "U+FF11", "U+FF14", " ", "y", "a", "y", "U+FF01">>

\* C24 witness: "3.14 yay!" has been normalized.
C24_Witness ==
  /\ call.fn = "normalize_japanese_punct" /\ result.done
  /\ call.text = DecimalYay

\* ------------------------------------------------------------ separators
\* C25: is_separator_line is true exactly of a text that, without its
\* whitespace, is not empty and is made either of at least 4 characters of
\* the dash set or of characters of the symbol set; "----" and "***" are
\* separators, "--", "Hello" and a mix of the two sets are not.
C25_SeparatorLine ==
  /\ (call.fn = "is_separator_line" /\ result.done) =>
       LET compact == SelectSeq(call.text, LAMBDA ch : ~IsSpace(ch))
       IN result.value =
            /\ compact # <<>>
            /\ \/ /\ \A i \in DOMAIN compact : compact[i] \in SEPARATOR_CHARS
                  /\ Len(compact) >= 4
               \/ \A i \in DOMAIN compact : compact[i] \in SEPARATOR_SYMBOLS
  /\ is_separator_line(DashLine)
  /\ is_separator_line(<<"*", "*", "*">>)
  /\ ~is_separator_line(<<"-", "-">>)
  /\ ~is_separator_line(Hello)
  /\ ~is_separator_line(<<"-", "-", "*", "-", "-">>)

\* C25 witness: a line of four characters of the dash set was found to be a
\* separator.
C25_Witness ==
  /\ call.fn = "is_separator_line" /\ result.done
  /\ result.value
  /\ call.text = <<"-", "_", "U+2500", "-">>

\* The separator at place i of out has one blank before it and one after it.
BlankBefore(out, i) ==
  i > 2 /\ out[i - 1] = Empty /\ ~is_blank_para(out[i - 2])
BlankAfter(out, i) ==
  i + 2 <= Len(out) /\ out[i + 1] = Empty /\ ~is_blank_para(out[i + 2])

\* C26 as claimed: after the separator pass every separator marker has
\* exactly one blank paragraph directly before it and exactly one directly
\* after it, wherever it stands in the chapter.
C26_BlankOnEachSide ==
  (call.fn = "apply_separator_handling" /\ result.done) =>
    \A i \in DOMAIN result.value :
      result.value[i] = MARK_SEPARATOR =>
        BlankBefore(result.value, i) /\ BlankAfter(result.value, i)

\* C26 as amended: a separator marker that is not the first paragraph of the
\* result has exactly one blank directly before it, and one that is not the
\* last has exactly one directly after it; the separator that nothing but
\* blank paragraphs precedes is the first paragraph of the result, without a
\* blank before it, and the one that nothing but blank paragraphs follows is
\* the last, without a blank after it.
C26_BlankBetween ==
  (call.fn = "apply_separator_handling" /\ result.done) =>
    \A i \in DOMAIN result.value :
      result.value[i] = MARK_SEPARATOR =>
        /\ i > 1 => BlankBefore(result.value, i)
        /\ i < Len(result.value) => BlankAfter(result.value, i)

\* C26 witness: a line of dashes after a blank paragraph and before a
\* whitespace paragraph and a sentence has become the first paragraph of the
\* result, one blank after it.
C26_Witness ==
  /\ call.fn = "apply_separator_handling" /\ result.done
  /\ call.paragraphs = <<Empty, DashLine, <<" ">>, Sentence>>
  /\ result.value = <<MARK_SEPARATOR, Empty, Sentence>>

\* ---------------------------------------------------------------- images
\* The first index at which a sequence holds a value.
FirstIndex(seq, value) ==
  CHOOSE i \in DOMAIN seq :
    seq[i] = value /\ \A j \in 1..(i - 1) : seq[j] # value

\* C27: extract_image_sources returns each normalized image source at most
\* once, in the order of the first occurrences over the chapters and their
\* paragraphs: the list holds exactly the sources that occurred, no source
\* twice, and a source is before another exactly as its first occurrence is;
\* an occurrence after the first adds nothing and moves nothing.
C27_FirstSeenOrder ==
  /\ \A i, j \in DOMAIN sources : sources[i] = sources[j] => i = j
  /\ {sources[i] : i \in DOMAIN sources}
       = {occurrences[k] : k \in DOMAIN occurrences}
  /\ \A i, j \in DOMAIN sources :
       i < j => FirstIndex(occurrences, sources[i])
                  < FirstIndex(occurrences, sources[j])

\* C27 witness: extract_image_sources has returned two sources for three
\* matches: the same src in two chapters gave two sources, and the third
\* match repeated the first source in a later chapter.
C27_Witness ==
  /\ img_pc \in {"sequential", "pool"}
  /\ Len(occurrences) = 3
  /\ Len(sources) = 2
  /\ occurrences[1] = BaseUrl \o <<"a", ".png">>
  /\ occurrences[2] = <<"https://", "host/n/1/", "a", ".png">>
  /\ occurrences[3] = occurrences[1]

\* fetch_one of the source at an index gave an error.
FetchFailed(i) == img_results[i].err # None

\* C28: a failing image fetch does not end download_images: when it has
\* returned, every source of the deduplicated list was fetched exactly once,
\* a source whose fetch failed is no key of the map and has no item in the
\* image list, and the image list holds the fetched sources in the order of
\* the source list, with one job and with more.
C28_FailuresSkipped ==
  img_pc = "returned" =>
    /\ \A i \in DOMAIN sources : Len(fetched[i]) = 1
    /\ \A i \in DOMAIN sources :
         FetchFailed(i) =>
           /\ sources[i] \notin DOMAIN image_map
           /\ \A k \in DOMAIN images : images[k].data # [bytes |-> sources[i]]
    /\ [k \in DOMAIN images |-> images[k].data.bytes]
         = SelectSeq(sources,
                     LAMBDA src : \E i \in DOMAIN sources :
                                    sources[i] = src /\ ~FetchFailed(i))

\* C28 witness: with more than one job, the fetch of the second of three
\* sources failed and download_images returned the first and the third.
C28_Witness ==
  /\ img_pc = "returned"
  /\ img_jobs > 1
  /\ Len(sources) = 3
  /\ ~FetchFailed(1) /\ FetchFailed(2) /\ ~FetchFailed(3)
  /\ ~fetched[2][1].ok
  /\ Len(images) = 2
  /\ images[2].data = [bytes |-> sources[3]]

\* The extension of a URL that is a known image extension, as
\* _ext_from_media_type names it ("" : none).
UrlExt(src) == ext_from_media_type(guess_media_type_from_url(src))

\* The extension of the href the map gives a source.
ExtOf(src) == image_map[src][4]

\* C29: the extension of the file name of a downloaded image is the one of
\* the response's content type; when the content type has no known image
\* extension, it is the one of the image URL; it is .bin only when neither
\* has one. (Violated: a content type that is not empty and has no known
\* extension gives .bin whatever the URL ends with.)
C29_ExtensionFallback ==
  img_pc = "returned" =>
    \A i \in DOMAIN sources :
      ~FetchFailed(i) =>
        LET header_ext ==
              ext_from_media_type(HeaderMediaType(fetched[i][1].content_type))
        IN ExtOf(sources[i]) =
             IF header_ext # "" THEN header_ext
             ELSE IF UrlExt(sources[i]) # "" THEN UrlExt(sources[i])
             ELSE ".bin"

\* ----------------------------------------------------------- build_epub2
\* The positions of an idref in the spine.
SpinePositions(spine, idref) == {p \in DOMAIN spine : spine[p] = idref}

\* C30: the spine is the title page, then the TOC page exactly when the book
\* has more than one chapter, then every chapter page once in chapter order;
\* with more than one volume that has chapters, the page of every volume is
\* in the spine once, directly before the page of the volume's first
\* chapter; with one such volume or none the spine has no volume page.
C30_Spine ==
  (call.fn = "build_epub2" /\ result.done) =>
    LET spine == result.value.spine
        n == call.chapters
        breaks == call.volume_breaks
        pages == SelectSeq(spine, LAMBDA ref : ref[1] # "vol")
        head == IF n > 1 THEN <<(<<"title">>), (<<"toc">>)>>
                ELSE <<(<<"title">>)>>
    IN /\ pages = head \o [i \in 1..n |-> <<"chap", i>>]
       /\ SubSeq(spine, 1, Len(head)) = head
       /\ IF Len(breaks) > 1
          THEN /\ \A k \in DOMAIN breaks :
                    \E p \in DOMAIN spine :
                      /\ SpinePositions(spine, <<"vol", k>>) = {p}
                      /\ p < Len(spine)
                      /\ spine[p + 1] = <<"chap", breaks[k][2] + 1>>
               /\ \A p \in DOMAIN spine :
                    spine[p][1] = "vol" => spine[p][2] \in DOMAIN breaks
          ELSE \A p \in DOMAIN spine : spine[p][1] # "vol"

\* C30 witness: a book of two volumes that have chapters, the second from
\* the third chapter on: title, TOC, volume 1, two chapters, volume 2, a
\* chapter.
C30_Witness ==
  /\ call.fn = "build_epub2"
  /\ result.done
  /\ call.chapters = 3
  /\ Len(call.volume_breaks) = 2
  /\ result.value.spine =
       <<(<<"title">>), (<<"toc">>), (<<"vol", 1>>), (<<"chap", 1>>),
         (<<"chap", 2>>), (<<"vol", 2>>), (<<"chap", 3>>)>>

\* The files of the archive that are not publication resources: the
\* mimetype, the container file and the package document itself.
PackageFiles ==
  {<<"mimetype">>, <<"META-INF/", "container.xml">>,
   <<"OEBPS/", "content.opf">>}

\* The volume pages build_epub2 generates for its breaks.
VolumePages(breaks) == IF Len(breaks) > 1 THEN Len(breaks) ELSE 0

\* C31: in a built container the manifest has one entry for each generated
\* file (navigation file, stylesheet, title page, TOC page when the book has
\* more than one chapter, every volume page, every chapter page, every
\* image): as many entries as such files, the files the entries name are
\* exactly the files written to the archive beside the package files, no
\* file is written twice, and no two entries share a path or an id.
C31_ManifestMatchesArchive ==
  (call.fn = "build_epub2" /\ epub_pc = "returned") =>
    LET manifest == result.value.manifest
    IN /\ Len(manifest) = 3 + (IF call.chapters > 1 THEN 1 ELSE 0)
                            + VolumePages(call.volume_breaks)
                            + call.chapters + Len(call.image_items)
       /\ \A i, j \in DOMAIN manifest :
            (manifest[i].href = manifest[j].href
               \/ manifest[i].id = manifest[j].id) => i = j
       /\ \A i, j \in DOMAIN zf : zf[i] = zf[j] => i = j
       /\ {<<"OEBPS/">> \o manifest[i].href : i \in DOMAIN manifest}
            = {zf[k] : k \in DOMAIN zf} \ PackageFiles

\* C31 witness: a container of two volumes of one chapter each and one image
\* was written: nine manifest entries, twelve files.
C31_Witness ==
  /\ call.fn = "build_epub2"
  /\ epub_pc = "returned"
  /\ call.chapters = 2
  /\ Len(call.volume_breaks) = 2
  /\ Len(call.image_items) = 1
  /\ Len(result.value.manifest) = 9
  /\ Len(zf) = 12
  /\ out_file = "complete"

\* The breaks of a run: none, or ranges that follow one another from the
\* first chapter to the last.
BreaksOfRun(n, breaks) ==
  \/ breaks = <<>>
  \/ /\ breaks[1][2] = 0
     /\ breaks[Len(breaks)][3] = n - 1
     /\ \A k \in 1..(Len(breaks) - 1) : breaks[k + 1][2] = breaks[k][3] + 1

\* The navPoints in document order: each one, then those nested in it.
RECURSIVE FlattenNav(_)
FlattenNav(nav_points) ==
  IF nav_points = <<>> THEN <<>>
  ELSE <<Head(nav_points)>> \o FlattenNav(Head(nav_points).children)
       \o FlattenNav(Tail(nav_points))

\* The file the manifest gives an id.
HrefOf(manifest, idref) ==
  (CHOOSE item \in {manifest[i] : i \in DOMAIN manifest} :
     item.id = idref).href

\* C32: the navigation tree of a container built by a run lists the pages
\* of the spine in the order of the spine, with playOrder 1..N in document
\* order; without volume grouping every navPoint is at the top level (depth
\* 1), with it the top level after title and TOC is the volumes, each with
\* exactly its own chapters nested in it in order (depth 2); every chapter
\* is listed once.
C32_NavMirrorsSpine ==
  (/\ call.fn = "build_epub2"
   /\ epub_pc = "returned"
   /\ BreaksOfRun(call.chapters, call.volume_breaks)) =>
    LET nav == result.value.nav
        spine == result.value.spine
        manifest == result.value.manifest
        breaks == call.volume_breaks
        flat == FlattenNav(nav)
        first == IF call.chapters > 1 THEN 2 ELSE 1
    IN /\ Len(flat) = Len(spine)
       /\ \A i \in DOMAIN flat :
            /\ flat[i].play_order = i
            /\ flat[i].src = HrefOf(manifest, spine[i])
       /\ \A idx \in 1..call.chapters :
            Cardinality({i \in DOMAIN flat :
                           flat[i].src = ChapterFile(idx)}) = 1
       /\ IF Len(breaks) > 1
          THEN /\ result.value.nav_depth = 2
               /\ Len(nav) = first + Len(breaks)
               /\ \A k \in DOMAIN breaks :
                    /\ nav[first + k].src = VolumeFile(k)
                    /\ [c \in DOMAIN nav[first + k].children |->
                          nav[first + k].children[c].src]
                       = [c \in 1..(breaks[k][3] - breaks[k][2] + 1) |->
                            ChapterFile(breaks[k][2] + c)]
               /\ \A p \in 1..first : nav[p].children = <<>>
          ELSE /\ result.value.nav_depth = 1
               /\ \A p \in DOMAIN nav : nav[p].children = <<>>

\* C32 witness: a container of three chapters in two volumes, the second
\* from the third chapter on: the second volume's navPoint has playOrder 6
\* and the third chapter, playOrder 7, nested in it.
C32_Witness ==
  /\ call.fn = "build_epub2"
  /\ epub_pc = "returned"
  /\ call.chapters = 3
  /\ call.volume_breaks = <<(<<"Vol", 0, 1>>), (<<"Vol", 2, 2>>)>>
  /\ Len(result.value.nav) = 4
  /\ result.value.nav[4] =
       NavPoint(6, VolumeFile(2), <<NavPoint(7, ChapterFile(3), <<>>)>>)

\* C34: when the writing of the archive fails after the output file was
\* opened, build_epub2 raises and nothing is left at the output path.
\* (Violated: the file the ZipFile created stays where it is.)
C34_NoPartialArtifact ==
  (call.fn = "build_epub2" /\ epub_pc = "raised") => out_file = "absent"

\* ------------------------------------------------------------- write_txt
\* C33: in the text file no two separator lines follow one another, also not
\* with only blank lines between them. (Violated: the line break alone that
\* stands for a blank line of the page is written as a newline, which
\* append_block takes for text.)
C33_SeparatorsCollapse ==
  (call.fn = "write_txt" /\ result.done) =>
    LET lines == result.value
    IN \A i, j \in DOMAIN lines :
         (i < j /\ lines[i] = SEPARATOR_LINE /\ lines[j] = SEPARATOR_LINE) =>
           \E k \in (i + 1)..(j - 1) : lines[k] \notin {Empty, SEPARATOR_LINE}

\* ------------------------------------------------------------ RateLimiter
\* The lock is held by the callers inside the with block and by nobody else.
LockHeldInBlock ==
  /\ \A c \in Callers : (lock = c) <=> (rl_pc[c] = "locked")
  /\ lock = 0 \/ lock \in Callers

\* C35: wait() holds the lock only inside the with block, where it reads
\* the clock and sets _next_time, and never while it sleeps; while a caller
\* sleeps and nobody is in the with block, a caller that goes for the lock
\* can take it; and of the finitely many calls of wait() every one returns,
\* so that in the end no caller is inside wait().
C35_SleepOutsideLock ==
  /\ [](LockHeldInBlock)
  /\ [](\A c, d \in Callers :
          (rl_pc[c] = "sleep" /\ rl_pc[d] = "acquire"
             /\ \A e \in Callers : rl_pc[e] # "locked")
            => ENABLED Acquire(d))
  /\ <>[](\A c \in Callers : rl_pc[c] = "idle")

\* C35 witness: one caller sleeps while the other is in the with block.
C35_Witness ==
  \E c, d \in Callers :
    /\ rl_pc[c] = "sleep"
    /\ clock < now[c] + sleep_for[c]
    /\ rl_pc[d] = "locked"
    /\ lock = d

\* C38: with min_interval > 0, the wake time a caller is given under the
\* lock is at least min_interval after the one given to the holder of the
\* lock before it, and _next_time never decreases.
C38_GrantsSpaced ==
  [][min_interval > 0 =>
       /\ next_time' >= next_time
       /\ (lock # 0 /\ lock' = 0 /\ sched_last # 0 - 1)
            => sched_last' >= sched_last + min_interval]_vars

\* C38 witness: a caller that found the clock past _next_time was given the
\* clock as its wake time, more than min_interval after the wake time given
\* before.
C38_Witness ==
  /\ min_interval > 0
  /\ sched_prev # 0 - 1
  /\ sched_last > sched_prev + min_interval
  /\ next_time = sched_last + min_interval

\* ---------------------------------------------------------------- backoff
\* C36: the backoff before the retry that follows failed attempt k is
\* min(8, 2^k) seconds plus a jitter of 0 to 0.25 seconds: 1 second for
\* k = 0, then without the jitter twice the one before or 8 seconds, never
\* less than the one before, and with the jitter never more than 8.25
\* seconds.
C36_BackoffSchedule ==
  (call.fn = "backoff" /\ result.done) =>
    LET k == call.attempt
        base == result.value.backoff - call.jitter
        next_base == result.value.next - call.next_jitter
    IN /\ call.jitter >= 0 /\ 4 * call.jitter <= Seconds(1)
       /\ base = (IF k >= 3 THEN Seconds(8) ELSE Seconds(2 ^ k))
       /\ k = 0 => base = Seconds(1)
       /\ next_base >= base
       /\ next_base = 2 * base \/ next_base = Seconds(8)
       /\ 4 * result.value.backoff <= 4 * Seconds(8) + Seconds(1)

\* C36 witness: the backoff after the fifth failed attempt is 8 seconds and
\* the largest jitter, where 2^k is 16.
C36_Witness ==
  /\ call.fn = "backoff"
  /\ result.done
  /\ call.attempt = 4
  /\ 4 * call.jitter = Seconds(1)
  /\ 4 * result.value.backoff = 4 * Seconds(8) + Seconds(1)

\* --------------------------------------------------------------- furigana
HasFurigana(str) == \E i \in 1..Len(str) : <<str[i]>> = Furigana
AnyHasFurigana(parts) == \E i \in 1..Len(parts) : HasFurigana(parts[i])


\* In remove-furigana mode no text of the page inside an open rt or rp tag
\* has gone into a title, a synopsis, a heading or a paragraph.
FuriganaSkipped ==
  /\ ~AnyHasFurigana(fg_removed.title_parts)
  /\ ~AnyHasFurigana(fg_removed.paragraphs)
  /\ ~AnyHasFurigana(fg_removed.current_html_parts)
  /\ ~AnyHasFurigana(fg_removed.current_text_parts)
  /\ ~AnyHasFurigana(fg_toc.title_parts)
  /\ ~AnyHasFurigana(fg_toc.author_parts)
  /\ ~AnyHasFurigana(fg_toc.summary_parts)
  /\ ~AnyHasFurigana(fg_toc.volume_parts)
  /\ ~AnyHasFurigana(fg_toc.chapter_parts)
  /\ \A i \in 1..Len(fg_toc.items) : ~HasFurigana(fg_toc.items[i].title)

\* The two chapter parsers are at the same place of the page's structure and
\* have emitted the same markers.
SameBlocks ==
  /\ fg_removed.text_block_depth = fg_kept.text_block_depth
  /\ fg_removed.in_p = fg_kept.in_p
  /\ fg_removed.in_title = fg_kept.in_title
  /\ fg_removed.block_label_end = fg_kept.block_label_end
  /\ MarkersOf(fg_removed.paragraphs) = MarkersOf(fg_kept.paragraphs)

\* C37 as stated: in remove-furigana mode no text inside an open rt or rp
\* tag is emitted, and for the same events the block depth, the markers
\* and the number of paragraphs are the same with and without the mode.
C37_SameParagraphCount ==
  /\ FuriganaSkipped
  /\ SameBlocks
  /\ Len(fg_removed.paragraphs) = Len(fg_kept.paragraphs)

\* C37 amended: in remove-furigana mode no text inside an open rt or rp tag
\* is emitted, and for the same events the block depth and the markers are
\* the same with and without the mode; the mode never adds a paragraph, and
\* the number of paragraphs is the same unless some paragraph is blank with
\* the mode and not blank without it.
C37_FuriganaSkipped ==
  /\ FuriganaSkipped
  /\ SameBlocks
  /\ Len(fg_removed.paragraphs) <= Len(fg_kept.paragraphs)
  /\ (\A i \in 1..Len(fg_removed.paragraphs) :
         fg_removed.paragraphs[i] = Empty => fg_kept.paragraphs[i] = Empty)
       => Len(fg_removed.paragraphs) = Len(fg_kept.paragraphs)

\* C37 witness: a paragraph of a sentence and an rt tag with its text has
\* ended; without the mode it holds the text of the rt tag, with the mode
\* the sentence alone.
C37_Witness ==
  /\ fg_pc = "chapter"
  /\ fg_open > 0
  /\ Len(fg_removed.paragraphs) = 1
  /\ Len(fg_kept.paragraphs) = 1
  /\ fg_removed.paragraphs[1] = Sentence
  /\ HasFurigana(fg_kept.paragraphs[1])

\* ------------------------------------------------------------------- main
\* C39: the volume breaks given to the merged container partition the
\* merged chapter list: the first starts at index 0, each next one starts
\* one past the end of the one before, the last ends at the last chapter
\* index, and every break has start <= end.
C39_BreaksPartition ==
  mv_pc = "merged" =>
    LET breaks == merged_call.volume_breaks
        last == Len(merged_call.chapters) - 1
    IN /\ Len(breaks) > 1
       /\ breaks[1][2] = 0
       /\ \A k \in 2..Len(breaks) : breaks[k][2] = breaks[k - 1][3] + 1
       /\ breaks[Len(breaks)][3] = last
       /\ \A k \in 1..Len(breaks) : breaks[k][2] <= breaks[k][3]
       /\ \A k \in 1..Len(breaks) :
            \A i \in breaks[k][2]..breaks[k][3] :
              <<"Volume", merged_call.chapters[i + 1][1]>> = breaks[k][1]

\* C39 witness: a merged container of three volumes, one of them of one
\* chapter and one of more.
C39_Witness ==
  /\ mv_pc = "merged"
  /\ Len(merged_call.volume_breaks) = 3
  /\ \E k \in 1..3 :
       merged_call.volume_breaks[k][2] = merged_call.volume_breaks[k][3]
  /\ \E k \in 1..3 :
       merged_call.volume_breaks[k][2] < merged_call.volume_breaks[k][3]

\* ------------------------------------------------------- download_images
\* The sources whose fetch gave data and no error, in the order of the
\* source list.
FetchedSources ==
  SelectSeq(sources,
            LAMBDA src : \E i \in DOMAIN sources :
                           /\ sources[i] = src
                           /\ ~FetchFailed(i)
                           /\ img_results[i].data # None)

Range(seq) == {seq[k] : k \in DOMAIN seq}

\* C40: after download_images the keys of the map are exactly the sources
\* fetched with success, its values are pairwise distinct and are the hrefs
\* of the image list, numbered 1, 2, ... without gaps in the order of the
\* sources whatever fetches failed, and every value of the map is the href
\* of an item of the manifest and the name of an entry of the archive
\* build_epub2 makes of the image list.
C40_MapMatchesImages ==
  img_pc = "returned" =>
    /\ DOMAIN image_map = Range(FetchedSources)
    /\ Len(images) = Len(FetchedSources)
    /\ \A k \in DOMAIN images :
         /\ image_map[FetchedSources[k]] = images[k].href
         /\ SubSeq(images[k].href, 1, 3) = <<"images/", "image", k>>
    /\ \A a, b \in DOMAIN image_map : a # b => image_map[a] # image_map[b]
    /\ \A src \in DOMAIN image_map :
         /\ \E item \in Range(ManifestItems(1, <<>>, images)) :
              item.href = image_map[src]
         /\ <<"OEBPS/">> \o image_map[src]
              \in Range(ArchiveEntries(1, <<>>, images))

\* C40 witness: of three sources the first failed; the second and the third
\* are image001 and image002.
C40_Witness ==
  /\ img_pc = "returned"
  /\ Len(sources) = 3
  /\ FetchFailed(1) /\ ~FetchFailed(2) /\ ~FetchFailed(3)
  /\ Len(images) = 2
  /\ sources[3] \in DOMAIN image_map
  /\ image_map[sources[3]][3] = 2
====
